---- MODULE Spec2Model ----
(***************************************************************************)
(* glycoprep: PPM-tolerance matching of observed peaks against a reference *)
(* glycan table (matching.py) and per-sample calibration shift estimation  *)
(* and correction (calibration.py).                                        *)
(*                                                                         *)
(* The program computes on IEEE-754 binary64 values (Python floats and     *)
(* numpy float64).  The model keeps that arithmetic: a number is a record  *)
(* with a 53-bit significand held as a sequence of 15-bit limbs, and every *)
(* operation rounds to nearest, ties to even, as the hardware does.        *)
(***************************************************************************)
EXTENDS Integers, Sequences, FiniteSets, TLC

(***************************************************************************)
(* Natural numbers below Base^Width: tuples of Width limbs in 0 .. Base-1,  *)
(* least significant limb first.  Width leaves room for the product of two *)
(* significands and for the scaled dividends of division and square root.  *)
(* The operations are written limb-parallel (carries are looked up, not    *)
(* rippled) and look at their operands before anything else, which keeps   *)
(* their evaluation shallow.                                               *)
(***************************************************************************)
LimbBits == 5 * 3
Base == 2 ^ LimbBits

NZero == <<0, 0, 0, 0, 0, 0, 0, 0, 0>>
NOne == <<1, 0, 0, 0, 0, 0, 0, 0, 0>>
Width == Len(NZero)
Limbs == 1 .. Width

\* the number whose limbs are the values of f
NTuple(f) == <<f[1], f[2], f[3], f[4], f[5], f[6], f[7], f[8], f[9]>>

\* the number n for 0 <= n < 2^31
NFromInt(n) ==
  NTuple([i \in Limbs |-> IF i = 1 THEN n % Base
                          ELSE IF i = 2 THEN (n \div Base) % Base
                          ELSE IF i = 3 THEN n \div (Base * Base)
                          ELSE 0])

NLimb(a, i) == IF i \in Limbs THEN a[i] ELSE 0

Max(S) == CHOOSE m \in S : \A x \in S : x <= m

Min2(a, b) == IF a < b THEN a ELSE b

\* index of the highest non-zero limb, 0 for zero
NTop(a) == IF a = NZero THEN 0 ELSE Max({i \in Limbs : a[i] # 0})

NCmpAt(a, b, top) == IF a[top] < b[top] THEN -1 ELSE 1

\* -1, 0, 1 as a < b, a = b, a > b
NCmp(a, b) ==
  IF a = b THEN 0 ELSE NCmpAt(a, b, Max({i \in Limbs : a[i] # b[i]}))

NCarryAt(s, js) == IF js # {} /\ s[Max(js)] >= Base THEN 1 ELSE 0

\* carry into limb i when adding limb sums s, each at most 2 * Base - 2:
\* the nearest lower limb that does not merely propagate decides
NCarry(s, i) == NCarryAt(s, {j \in 1 .. i - 1 : s[j] # Base - 1})

NAddSums(s) == NTuple([i \in Limbs |-> (s[i] + NCarry(s, i)) % Base])

NAdd(a, b) ==
  IF a = NZero THEN b
  ELSE IF b = NZero THEN a
  ELSE NAddSums(NTuple([i \in Limbs |-> a[i] + b[i]]))

NBorrowAt(a, b, js) == IF js # {} /\ a[Max(js)] < b[Max(js)] THEN 1 ELSE 0

\* borrow out of the limbs below i in a - b
NBorrow(a, b, i) == NBorrowAt(a, b, {j \in 1 .. i - 1 : a[j] # b[j]})

\* a - b for a >= b
NSub(a, b) ==
  IF a = b THEN NZero
  ELSE NTuple([i \in Limbs |-> (a[i] - b[i] - NBorrow(a, b, i) + Base) % Base])

\* the number with limb values t[i] < Base * Base
NJoin(t) ==
  IF t = NZero THEN NZero
  ELSE NAdd(NTuple([i \in Limbs |-> t[i] % Base]),
            NTuple([i \in Limbs |-> IF i = 1 THEN 0 ELSE t[i - 1] \div Base]))

\* a * k for 0 <= k < Base
NMulSmall(a, k) ==
  IF a = NZero \/ k = 0 THEN NZero
  ELSE NJoin(NTuple([i \in Limbs |-> a[i] * k]))

\* a * Base^n
NShlLimbs(a, n) ==
  IF a = NZero THEN NZero ELSE NTuple([i \in Limbs |-> NLimb(a, i - n)])

\* floor(a / Base^n)
NShrLimbs(a, n) ==
  IF a = NZero THEN NZero ELSE NTuple([i \in Limbs |-> NLimb(a, i + n)])

\* a * b for b < Base^4
NMul(a, b) ==
  IF a = NZero \/ b = NZero THEN NZero
  ELSE NAdd(NAdd(NMulSmall(a, b[1]), NShlLimbs(NMulSmall(a, b[2]), 1)),
            NAdd(NShlLimbs(NMulSmall(a, b[3]), 2),
                 NShlLimbs(NMulSmall(a, b[4]), 3)))

NShlBy(a, q, r) ==
  NTuple([i \in Limbs |-> ((NLimb(a, i - q) * 2 ^ r) % Base)
                          + (NLimb(a, i - q - 1) \div 2 ^ (LimbBits - r))])

\* a * 2^n
NShl(a, n) ==
  IF a = NZero THEN NZero ELSE NShlBy(a, n \div LimbBits, n % LimbBits)

NShrBy(a, q, r) ==
  NTuple([i \in Limbs |-> (NLimb(a, i + q) \div 2 ^ r)
                          + ((NLimb(a, i + q + 1) * 2 ^ (LimbBits - r)) % Base)])

\* floor(a / 2^n)
NShr(a, n) ==
  IF a = NZero THEN NZero ELSE NShrBy(a, n \div LimbBits, n % LimbBits)

\* bit i (from 0) of a
NBit(a, i) == (NLimb(a, i \div LimbBits + 1) \div 2 ^ (i % LimbBits)) % 2

\* TRUE iff some bit below bit n of a is set
NLowBits(a, n) ==
  \/ \E i \in Limbs : i <= n \div LimbBits /\ a[i] # 0
  \/ NLimb(a, n \div LimbBits + 1) % 2 ^ (n % LimbBits) # 0

\* number of bits of k < Base
BitLenSmall(k) == Cardinality({b \in 0 .. LimbBits - 1 : 2 ^ b <= k})

NBitLenAt(a, top) ==
  IF top = 0 THEN 0 ELSE LimbBits * (top - 1) + BitLenSmall(a[top])

NBitLen(a) == NBitLenAt(a, NTop(a))

\* a * Base + limb
NPush(a, limb) == NTuple([i \in Limbs |-> IF i = 1 THEN limb ELSE a[i - 1]])

RECURSIVE NFit(_, _, _, _)
\* the largest q <= qhat with q * d <= r, and r - q * d; t is qhat * d
NFit(r, d, qhat, t) ==
  IF NCmp(t, r) > 0 THEN NFit(r, d, qhat - 1, NSub(t, d))
  ELSE <<qhat, NSub(r, t)>>

\* the quotient of the two leading limbs of r by the leading limb d[k] of d
NEstimate(r, d, k) == (NLimb(r, k + 1) * Base + r[k]) \div d[k]

NDivTry(r, d, qhat) == NFit(r, d, qhat, NMulSmall(d, qhat))

\* one step of schoolbook long division: <<floor(r / d), r mod d>> for
\* r < d * Base; the top limb of d is at least Base / 2, so the estimate
\* from the leading limbs is at most two too large
NDivStep(r, d) ==
  IF r = NZero THEN <<0, NZero>>
  ELSE NDivTry(r, d, Min2(NEstimate(r, d, NTop(d)), Base - 1))

RECURSIVE NDivModFrom(_, _, _, _, _)
RECURSIVE NDivModNext(_, _, _, _, _)
RECURSIVE NDivModStep(_, _, _, _, _)
\* long division from limb i of n downwards; q and r are the quotient and
\* the remainder of the limbs above i
NDivModFrom(n, d, i, q, r) ==
  IF i = 0 THEN <<q, r>> ELSE NDivModNext(n, d, i, q, NPush(r, n[i]))

\* r is the remainder so far with the next limb brought down
NDivModNext(n, d, i, q, r) ==
  IF NCmp(r, d) < 0 THEN NDivModFrom(n, d, i - 1, NPush(q, 0), r)
  ELSE NDivModStep(n, d, i, q, NDivStep(r, d))

NDivModStep(n, d, i, q, step) ==
  NDivModFrom(n, d, i - 1, NPush(q, step[1]), step[2])

NDivLast(ntop, dtop) == IF ntop < dtop THEN 0 ELSE ntop - dtop + 1

\* the limbs of n above limb last are below d and start as the remainder
NDivModAt(n, d, last) == NDivModFrom(n, d, last, NZero, NShrLimbs(n, last))

NDivUnscale(qr, sh) == <<qr[1], NShr(qr[2], sh)>>

NDivScaled(nn, dd, sh) ==
  NDivUnscale(NDivModAt(nn, dd, NDivLast(NTop(nn), NTop(dd))), sh)

NDivBy(n, d, sh) == NDivScaled(NShl(n, sh), NShl(d, sh), sh)

\* <<floor(n / d), n mod d>> for d > 0; both are first scaled so that the
\* top limb of d has its high bit set
NDivMod(n, d) == NDivBy(n, d, LimbBits - BitLenSmall(d[NTop(d)]))

NSqrtStep(n, x) == NShr(NAdd(x, NDivMod(n, x)[1]), 1)

RECURSIVE NSqrtFrom(_, _, _)
\* Newton's iteration from above: x decreases until it is floor(sqrt(n));
\* y is the step after x
NSqrtFrom(n, x, y) ==
  IF NCmp(y, x) >= 0 THEN x ELSE NSqrtFrom(n, y, NSqrtStep(n, y))

NSqrtStart(n) == NShl(NOne, (NBitLen(n) + 1) \div 2)

NSqrtNewton(n, x) == NSqrtFrom(n, x, NSqrtStep(n, x))

\* floor(sqrt(n))
NSqrt(n) == IF n = NZero THEN NZero ELSE NSqrtNewton(n, NSqrtStart(n))

(***************************************************************************)
(* binary64 values.  A finite value is (-1)^s * m * 2^e: a normal value has *)
(* a significand m of exactly MantBits bits and e >= MinExp, a subnormal    *)
(* one a shorter significand at e = MinExp, zero has m = 0.  "inf" and      *)
(* "nan" are the two special classes.  Zero is kept unsigned.               *)
(***************************************************************************)
MantBits == 53
MaxExp == 1023
\* the exponent of the last place of the subnormal values, 2^-1074
MinExp == 2 - MaxExp - MantBits

NaN == [c |-> "nan", s |-> 0, m |-> NZero, e |-> 0]
Inf(s) == [c |-> "inf", s |-> s, m |-> NZero, e |-> 0]
Zero == [c |-> "fin", s |-> 0, m |-> NZero, e |-> 0]

IsNaN(x) == x.c = "nan"
IsZero(x) == x.c = "fin" /\ x.m = NZero

Finite(s, m, e) == [c |-> "fin", s |-> s, m |-> m, e |-> e]

\* overflow of the exponent range gives infinity, a significand rounded
\* away gives zero
FPack(s, m, e) ==
  IF m = NZero THEN Zero
  ELSE IF e + MantBits - 1 > MaxExp THEN Inf(s)
  ELSE Finite(s, m, e)

\* rounding up may carry into a further bit
FCarryOut(s, q, e) ==
  IF NBitLen(q) > MantBits THEN FPack(s, NShr(q, 1), e + 1)
  ELSE FPack(s, q, e)

\* ties to even: up when the dropped bits are more than half a unit, or
\* exactly half a unit and q is odd
FRoundsUp(q, half, low) == half /\ (low \/ NBit(q, 0) = 1)

\* q is n without its sh lowest bits
FRoundCut(s, n, e, sticky, sh, q) ==
  FCarryOut(s,
            IF FRoundsUp(q, NBit(n, sh - 1) = 1, sticky \/ NLowBits(n, sh - 1))
            THEN NAdd(q, NOne) ELSE q,
            e + sh)

\* the number of low bits of n * 2^e that do not fit: those beyond
\* MantBits, and under MinExp those below the last subnormal place
FCutBits(e, len) ==
  IF len - MantBits >= MinExp - e THEN len - MantBits ELSE MinExp - e

\* sh is the number of bits to drop: none (the value is exact, held at the
\* exponent of a normal value or at MinExp), all of them and more (the
\* value is under a quarter of the least subnormal), or some
FRoundBy(s, n, e, sticky, len, sh) ==
  IF sh <= 0 THEN Finite(s, NShl(n, 0 - sh), e + sh)
  ELSE IF sh > len + 1 THEN Zero
  ELSE FRoundCut(s, n, e, sticky, sh, NShr(n, sh))

FRoundLen(s, n, e, sticky, len) ==
  FRoundBy(s, n, e, sticky, len, FCutBits(e, len))

\* n * 2^e (plus something below one unit of n when sticky) rounded to
\* nearest, ties to even
FRound(s, n, e, sticky) ==
  IF n = NZero THEN Zero ELSE FRoundLen(s, n, e, sticky, NBitLen(n))

\* the binary64 value of a small integer
FInt(n) == FRound(IF n < 0 THEN 1 ELSE 0, NFromInt(IF n < 0 THEN -n ELSE n),
                  0, FALSE)

FNeg(x) == IF x.c = "nan" \/ IsZero(x) THEN x ELSE [x EXCEPT !.s = 1 - x.s]

FAbs(x) == IF x.c = "nan" THEN x ELSE [x EXCEPT !.s = 0]

\* a and b are the significands of x and y at the common exponent emin
FAddAligned(x, y, a, b, emin) ==
  FRound(IF x.s = y.s \/ NCmp(a, b) >= 0 THEN x.s ELSE y.s,
         IF x.s = y.s THEN NAdd(a, b)
         ELSE IF NCmp(a, b) >= 0 THEN NSub(a, b) ELSE NSub(b, a),
         emin, FALSE)

FAddAt(x, y, emin) ==
  FAddAligned(x, y, NShl(x.m, x.e - emin), NShl(y.m, y.e - emin), emin)

FAddFin(x, y) ==
  IF IsZero(x) THEN y
  ELSE IF IsZero(y) THEN x
  ELSE IF x.e - y.e > MantBits + 3 THEN x
  ELSE IF y.e - x.e > MantBits + 3 THEN y
  ELSE FAddAt(x, y, Min2(x.e, y.e))

FAdd(x, y) ==
  IF x.c = "nan" \/ y.c = "nan" THEN NaN
  ELSE IF x.c = "inf" THEN (IF y.c = "inf" /\ y.s # x.s THEN NaN ELSE x)
  ELSE IF y.c = "inf" THEN y
  ELSE FAddFin(x, y)

FSub(x, y) == FAdd(x, FNeg(y))

FMul(x, y) ==
  IF x.c = "nan" \/ y.c = "nan" THEN NaN
  ELSE IF x.c = "inf" \/ y.c = "inf"
       THEN (IF IsZero(x) \/ IsZero(y) THEN NaN ELSE Inf((x.s + y.s) % 2))
  ELSE IF IsZero(x) \/ IsZero(y) THEN Zero
  ELSE FRound((x.s + y.s) % 2, NMul(x.m, y.m), x.e + y.e, FALSE)

\* a finite non-zero value with its significand brought to MantBits bits
\* (the exponent of a subnormal goes under MinExp)
FNormalBy(x, k) == [x EXCEPT !.m = NShl(x.m, k), !.e = x.e - k]

FNormal(x) == FNormalBy(x, MantBits - NBitLen(x.m))

\* qr is the quotient and remainder of the scaled significands
FDivRound(x, y, qr) ==
  FRound((x.s + y.s) % 2, qr[1], x.e - y.e - (MantBits + 2), qr[2] # NZero)

FDivFin(x, y) == FDivRound(x, y, NDivMod(NShl(x.m, MantBits + 2), y.m))

\* numpy true division: a zero divisor gives inf (nan for 0/0), no exception
FDiv(x, y) ==
  IF x.c = "nan" \/ y.c = "nan" THEN NaN
  ELSE IF x.c = "inf" THEN (IF y.c = "inf" THEN NaN ELSE Inf((x.s + y.s) % 2))
  ELSE IF y.c = "inf" THEN Zero
  ELSE IF IsZero(y) THEN (IF IsZero(x) THEN NaN ELSE Inf(x.s))
  ELSE IF IsZero(x) THEN Zero
  ELSE FDivFin(FNormal(x), FNormal(y))

\* r is floor(sqrt(n))
FSqrtRound(n, e, r) == FRound(0, r, e, NMul(r, r) # n)

FSqrtOf(n, e) == FSqrtRound(n, e, NSqrt(n))

\* the significand is scaled by an amount that leaves an even exponent
FSqrtScaled(x, sh) == FSqrtOf(NShl(x.m, sh), (x.e - sh) \div 2)

FSqrtFin(x) == FSqrtScaled(x, MantBits + 3 + (x.e % 2))

FSqrt(x) ==
  IF x.c = "nan" THEN NaN
  ELSE IF IsZero(x) THEN Zero
  ELSE IF x.s = 1 THEN NaN
  ELSE IF x.c = "inf" THEN x
  ELSE FSqrtFin(FNormal(x))

FIsNeg(a) == a.s = 1 /\ ~IsZero(a)

\* -1, 0, 1 as |a| < |b|, |a| = |b|, |a| > |b|
FCmpMag(a, b) ==
  IF a.c = "inf" THEN (IF b.c = "inf" THEN 0 ELSE 1)
  ELSE IF b.c = "inf" THEN -1
  ELSE IF IsZero(a) THEN (IF IsZero(b) THEN 0 ELSE -1)
  ELSE IF IsZero(b) THEN 1
  ELSE IF a.e # b.e THEN (IF a.e < b.e THEN -1 ELSE 1)
  ELSE NCmp(a.m, b.m)

\* -1, 0, 1 for x < y, x = y, x > y; neither operand is nan
FCmp(x, y) ==
  IF FIsNeg(x) /\ ~FIsNeg(y) THEN -1
  ELSE IF ~FIsNeg(x) /\ FIsNeg(y) THEN 1
  ELSE IF FIsNeg(x) THEN FCmpMag(y, x)
  ELSE FCmpMag(x, y)

\* comparisons with a nan operand are false
FLe(x, y) == x.c # "nan" /\ y.c # "nan" /\ FCmp(x, y) <= 0
FLt(x, y) == x.c # "nan" /\ y.c # "nan" /\ FCmp(x, y) < 0
FEq(x, y) == x.c # "nan" /\ y.c # "nan" /\ FCmp(x, y) = 0

\* Python's max(a, b): b only when b > a, so max(0.0, nan) is 0.0
PyMax(a, b) == IF FLt(a, b) THEN b ELSE a

\* the binary64 value nearest to the decimal n / d
Dec(n, d) == FDiv(FInt(n), FInt(d))

(***************************************************************************)
(* Cell values and tables.  A cell is a binary64 value or a string; a      *)
(* missing cell is NaN, as in pandas.  A row is a function from column      *)
(* names to cells (a dict), a DataFrame its ordered columns and its rows.   *)
(***************************************************************************)
Str(t) == [c |-> "str", t |-> t]

One == FInt(1)
Two == FInt(2)
Million == FInt(1000000)

Range(s) == {s[i] : i \in DOMAIN s}

\* d[k] = v on a dict
Put(d, k, v) == [x \in DOMAIN d \cup {k} |-> IF x = k THEN v ELSE d[x]]

AddColumn(cols, col) == IF col \in Range(cols) THEN cols ELSE Append(cols, col)

RECURSIVE AddColumns(_, _)
AddColumns(cols, more) ==
  IF more = <<>> THEN cols
  ELSE AddColumns(AddColumn(cols, Head(more)), Tail(more))

\* pd.DataFrame()
EmptyFrame == [columns |-> <<>>, rows |-> <<>>]

HasColumn(df, col) == col \in Range(df.columns)

\* pd.isna on a scalar cell
pd_isna(v) == v.c = "nan"

mz_column == "m_z"
mass_column == "Mass"
sample_column == "sample_sheet"
ppm_column == "ppm_difference"

NoError == [type |-> "none", field |-> ""]
ValueError(field) == [type |-> "ValueError", field |-> field]
KeyError(field) == [type |-> "KeyError", field |-> field]
TypeError(field) == [type |-> "TypeError", field |-> field]

\* a cell that holds a text
is_text(v) == v.c = "str"

(***************************************************************************)
(* matching.py                                                             *)
(***************************************************************************)
\* a difference taken from the theoretical mass down to the observed one
calculate_ppm_reversed(observed, theoretical) ==
  FMul(FDiv(FSub(theoretical, observed), theoretical), Million)

calculate_ppm(observed, theoretical) ==
  FMul(FDiv(FSub(observed, theoretical), theoretical), Million)

\* a confidence of the signed difference
calculate_confidence_signed(ppm_diff, ppm_threshold) ==
  PyMax(Zero, FSub(One, FDiv(ppm_diff, ppm_threshold)))

calculate_confidence(ppm_diff, ppm_threshold) ==
  PyMax(Zero, FSub(One, FDiv(FAbs(ppm_diff), ppm_threshold)))

\* a check that blames the other table's column
MissingColumnSwapped(peaks, reference) ==
  IF ~HasColumn(peaks, mz_column) THEN mass_column
  ELSE IF ~HasColumn(reference, mass_column) THEN mz_column
  ELSE ""

\* the column whose absence makes match_peaks_to_glycans raise, "" if none
MissingColumn(peaks, reference) ==
  IF ~HasColumn(peaks, mz_column) THEN mz_column
  ELSE IF ~HasColumn(reference, mass_column) THEN mass_column
  ELSE ""

reference_masses(reference) ==
  [j \in 1 .. Len(reference.rows) |-> reference.rows[j][mass_column]]

\* matching.py 17 on a text m/z: numpy refuses the subtraction from a
\* float64 array whatever its length; on an object array it subtracts
\* cell by cell, so an array without cells raises nothing
subtraction_raises(observed_mz, reference) ==
  /\ is_text(observed_mz)
  /\ (reference.dtypes[mass_column] = "float64" \/ reference.rows # <<>>)

\* calculate_ppm broadcast over the reference masses (numpy)
ppm_diffs_of(observed_mz, masses) ==
  [j \in DOMAIN masses |-> calculate_ppm(observed_mz, masses[j])]

\* a mask that leaves out the threshold itself
matches_mask_strict(ppm_diffs, ppm_threshold) ==
  [j \in DOMAIN ppm_diffs |-> FLt(FAbs(ppm_diffs[j]), ppm_threshold)]

matches_mask(ppm_diffs, ppm_threshold) ==
  [j \in DOMAIN ppm_diffs |-> FLe(FAbs(ppm_diffs[j]), ppm_threshold)]

\* a best-match rule: the first position that is set, only
match_indices_first(mask) ==
  SelectSeq([j \in DOMAIN mask |-> j],
            LAMBDA j : mask[j] /\ \A k \in 1 .. j - 1 : ~mask[k])

\* np.where(mask)[0]: the positions that are set, ascending
match_indices_of(mask) ==
  SelectSeq([j \in DOMAIN mask |-> j], LAMBDA j : mask[j])

\* the dict built for one (peak, reference row) pair
combined_row(row, observed_mz, ref_row, ref_columns, ppm_diff, ppm_threshold) ==
  LET c1 == Put(row, "observed_mz", observed_mz)
      c2 == [x \in DOMAIN c1 \cup Range(ref_columns) |->
               IF x \in Range(ref_columns) THEN ref_row[x] ELSE c1[x]]
      c3 == Put(c2, "ppm_difference", ppm_diff)
  IN  Put(c3, "confidence", calculate_confidence(ppm_diff, ppm_threshold))

\* the dicts of the positions match_indices, in that order
rows_from(row, reference, ppm_threshold, ppm_diffs, match_indices) ==
  [i \in 1 .. Len(match_indices) |->
     combined_row(row, row[mz_column], reference.rows[match_indices[i]],
                  reference.columns, ppm_diffs[match_indices[i]],
                  ppm_threshold)]

rows_within(row, reference, ppm_threshold, ppm_diffs) ==
  rows_from(row, reference, ppm_threshold, ppm_diffs,
            match_indices_of(matches_mask(ppm_diffs, ppm_threshold)))

\* the rows one peak adds to matched_rows, in reference order
rows_for_peak(row, reference, ppm_threshold) ==
  rows_within(row, reference, ppm_threshold,
              ppm_diffs_of(row[mz_column], reference_masses(reference)))

\* lists that forget a peak without an accepted pair
extend_lists_dropping(row, matched, unmatched, new) ==
  [matched |-> matched \o new, unmatched |-> unmatched]

\* lists that grow at the front
extend_lists_front(row, matched, unmatched, new) ==
  IF Len(new) = 0
  THEN [matched |-> matched, unmatched |-> <<row>> \o unmatched]
  ELSE [matched |-> new \o matched, unmatched |-> unmatched]

\* matching.py 86-107: no accepted pair sends the peak to unmatched
extend_lists(row, matched, unmatched, new) ==
  IF Len(new) = 0
  THEN [matched |-> matched, unmatched |-> Append(unmatched, row)]
  ELSE [matched |-> matched \o new, unmatched |-> unmatched]

\* an iteration that looks at the progress made so far
match_one_peak_observed(row, reference, ppm_threshold, matched, unmatched) ==
  IF pd_isna(row[mz_column]) \/ Len(matched) + Len(unmatched) > 0
  THEN [matched |-> matched, unmatched |-> unmatched]
  ELSE extend_lists(row, matched, unmatched,
                    rows_for_peak(row, reference, ppm_threshold))

\* an iteration that does not skip a peak without a mass
match_one_peak_noskip(row, reference, ppm_threshold, matched, unmatched) ==
  extend_lists(row, matched, unmatched,
               rows_for_peak(row, reference, ppm_threshold))

\* one iteration of the loop over peaks_df.iterrows()
match_one_peak(row, reference, ppm_threshold, matched, unmatched) ==
  IF pd_isna(row[mz_column])
  THEN [matched |-> matched, unmatched |-> unmatched]
  ELSE extend_lists(row, matched, unmatched,
                    rows_for_peak(row, reference, ppm_threshold))

\* the key order of the dicts in matched_rows
matched_columns(peaks, reference) ==
  AddColumns(AddColumns(AddColumn(peaks.columns, "observed_mz"),
                        reference.columns),
             <<"ppm_difference", "confidence">>)

\* pd.DataFrame(rows) if rows else pd.DataFrame()
frame_of(rows, columns) ==
  IF rows = <<>> THEN EmptyFrame ELSE [columns |-> columns, rows |-> rows]

\* Series.nunique(): the number of distinct values that are not missing
nunique(values) ==
  Cardinality({values[i] : i \in {j \in DOMAIN values : ~pd_isna(values[j])}})

\* a / b if b > 0 else 0
ratio_or_zero(a, b) == IF b > 0 THEN FDiv(FInt(a), FInt(b)) ELSE Zero

\* matching.py 115-139
get_match_statistics(matched, unmatched, peaks) ==
  [total_peaks |-> Len(peaks.rows),
   matched_peaks |->
     IF Len(matched.rows) > 0
     THEN nunique([i \in DOMAIN matched.rows |-> matched.rows[i]["observed_mz"]])
     ELSE 0,
   unmatched_peaks |-> Len(unmatched.rows),
   total_match_rows |-> Len(matched.rows),
   avg_matches_per_peak |->
     ratio_or_zero(Len(matched.rows),
                   IF Len(matched.rows) > 0
                   THEN nunique([i \in DOMAIN matched.rows |->
                                   matched.rows[i]["observed_mz"]])
                   ELSE 0),
   match_rate |->
     ratio_or_zero(IF Len(matched.rows) > 0
                   THEN nunique([i \in DOMAIN matched.rows |->
                                   matched.rows[i]["observed_mz"]])
                   ELSE 0,
                   Len(peaks.rows))]

(***************************************************************************)
(* calibration.py.  The aggregations are those of pandas' groupby: groups  *)
(* with a missing key are dropped and the keys come out sorted; "median",   *)
(* "mean", "std" and "count" skip missing values; "mean" is a compensated   *)
(* (Kahan) sum divided by the count, "std" the square root of the one-pass  *)
(* (Welford) variance with ddof = 1.                                        *)
(***************************************************************************)
\* the sample names of the model, in sorted order
SampleNames == <<"A", "B">>

RECURSIVE InsertSorted(_, _)
InsertSorted(sorted, x) ==
  IF sorted = <<>> THEN <<x>>
  ELSE IF FLe(x, Head(sorted)) THEN <<x>> \o sorted
  ELSE <<Head(sorted)>> \o InsertSorted(Tail(sorted), x)

RECURSIVE SortValues(_)
SortValues(vals) ==
  IF vals = <<>> THEN <<>>
  ELSE InsertSorted(SortValues(Tail(vals)), Head(vals))

\* the middle value, or the mean of the two middle values
median_of(sorted, n) ==
  IF n % 2 = 1 THEN sorted[n \div 2 + 1]
  ELSE FDiv(FAdd(sorted[n \div 2 + 1], sorted[n \div 2]), Two)

agg_median(vals) ==
  IF Len(vals) = 0 THEN NaN ELSE median_of(SortValues(vals), Len(vals))

RECURSIVE KahanSum(_, _, _, _)
RECURSIVE KahanAdd(_, _, _, _, _)
\* compensated summation; a sum that is nan stays nan
KahanSum(vals, i, sumx, compensation) ==
  IF i > Len(vals) \/ IsNaN(sumx) THEN sumx
  ELSE KahanAdd(vals, i, sumx, FSub(vals[i], compensation),
                FAdd(sumx, FSub(vals[i], compensation)))

\* a compensation that is nan is reset
KahanComp(c) == IF IsNaN(c) THEN Zero ELSE c

KahanAdd(vals, i, sumx, y, t) ==
  KahanSum(vals, i + 1, t, KahanComp(FSub(FSub(t, sumx), y)))

agg_mean(vals) ==
  IF Len(vals) = 0 THEN NaN
  ELSE FDiv(KahanSum(vals, 1, Zero, Zero), FInt(Len(vals)))

RECURSIVE WelfordSsqdm(_, _, _, _)
RECURSIVE WelfordAdd(_, _, _, _, _)
\* one-pass sum of squared deviations from the mean; nan stays nan
WelfordSsqdm(vals, i, mean, ssqdm) ==
  IF i > Len(vals) \/ IsNaN(ssqdm) THEN ssqdm
  ELSE WelfordAdd(vals, i, mean, ssqdm,
                  FAdd(mean, FDiv(FSub(vals[i], mean), FInt(i))))

WelfordAdd(vals, i, mean, ssqdm, newmean) ==
  WelfordSsqdm(vals, i + 1, newmean,
               FAdd(ssqdm, FMul(FSub(vals[i], newmean), FSub(vals[i], mean))))

\* the delta degrees of freedom of Series.std
ddof == 1

\* the population standard deviation (ddof = 0)
agg_std_population(vals) ==
  IF Len(vals) = 0 THEN NaN
  ELSE FSqrt(FDiv(WelfordSsqdm(vals, 1, Zero, Zero), FInt(Len(vals))))

agg_std(vals) ==
  IF Len(vals) <= ddof THEN NaN
  ELSE FSqrt(FDiv(WelfordSsqdm(vals, 1, Zero, Zero), FInt(Len(vals) - ddof)))

\* one group per known sample, present or not
group_keys_all(df, col) == [i \in DOMAIN SampleNames |-> Str(SampleNames[i])]

\* the group keys of df, sorted, missing keys dropped
group_keys(df, col) ==
  SelectSeq([i \in DOMAIN SampleNames |-> Str(SampleNames[i])],
            LAMBDA k : \E i \in DOMAIN df.rows : df.rows[i][col] = k)

\* groups that pool the rows of every sample
group_rows_pooled(df, key_col, key) ==
  SelectSeq(df.rows, LAMBDA r : ~pd_isna(r[key_col]))

\* the rows of group key, in frame order
group_rows(df, key_col, key) == SelectSeq(df.rows, LAMBDA r : r[key_col] = key)

column_of(rows, col) == [i \in DOMAIN rows |-> rows[i][col]]

\* the non-missing values of column col in the rows of group key
group_values(df, key_col, key, col) ==
  SelectSeq(column_of(group_rows(df, key_col, key), col),
            LAMBDA v : ~pd_isna(v))

shift_columns == <<sample_column, "shift_median", "shift_mean", "shift_std", "n_peaks">>

\* an estimate that groups the empty set as well
estimate_missing_column_grouped(df, p_column) ==
  IF ~HasColumn(df, sample_column) THEN sample_column
  ELSE IF ~HasColumn(df, p_column) THEN p_column
  ELSE ""

\* the column estimate_sample_shift fails on (groupby raises KeyError), "" if none
estimate_missing_column(df, p_column) ==
  IF Len(df.rows) = 0 THEN ""
  ELSE IF ~HasColumn(df, sample_column) THEN sample_column
  ELSE IF ~HasColumn(df, p_column) THEN p_column
  ELSE ""

\* the aggregated row of one group
shift_row(key, vals) ==
  [sample_sheet |-> key,
   shift_median |-> agg_median(vals),
   shift_mean   |-> agg_mean(vals),
   shift_std    |-> agg_std(vals),
   n_peaks      |-> Len(vals)]

shift_rows(df, p_column, keys) ==
  [g \in DOMAIN keys |->
     shift_row(keys[g], group_values(df, sample_column, keys[g], p_column))]

estimate_sample_shift(df, p_column) ==
  IF Len(df.rows) = 0 THEN [columns |-> shift_columns, rows |-> <<>>]
  ELSE [columns |-> shift_columns,
        rows |-> shift_rows(df, p_column, group_keys(df, sample_column))]

\* a map of the sample means
shift_map_mean(shifts, key) ==
  LET hits == SelectSeq(shifts.rows, LAMBDA r : r[sample_column] = key)
  IN  IF pd_isna(key) \/ hits = <<>> THEN NaN
      ELSE hits[Len(hits)]["shift_mean"]

\* shifts.set_index(sample_column)["shift_median"].to_dict(), then .map:
\* the value of the last row with that key, NaN when there is none
shift_map(shifts, key) ==
  LET hits == SelectSeq(shifts.rows, LAMBDA r : r[sample_column] = key)
  IN  IF pd_isna(key) \/ hits = <<>> THEN NaN
      ELSE hits[Len(hits)]["shift_median"]

\* the column apply_shift_correction fails on (KeyError), "" if none
apply_missing_column(df, shifts, p_column) ==
  IF Len(df.rows) = 0 THEN ""
  ELSE IF ~HasColumn(shifts, sample_column) THEN sample_column
  ELSE IF ~HasColumn(df, sample_column) THEN sample_column
  ELSE IF ~HasColumn(df, p_column) THEN p_column
  ELSE ""

\* a correction that adds the estimate
apply_shift_correction_added(df, shifts, p_column) ==
  IF Len(df.rows) = 0 THEN df
  ELSE [columns |-> AddColumns(df.columns,
                      <<"sample_shift_estimate", "ppm_difference_corrected">>),
        rows |-> [i \in DOMAIN df.rows |->
          LET r   == df.rows[i]
              est == shift_map(shifts, r[sample_column])
          IN  Put(Put(r, "sample_shift_estimate", est),
                  "ppm_difference_corrected", FAdd(r[p_column], est))]]

apply_shift_correction(df, shifts, p_column) ==
  IF Len(df.rows) = 0 THEN df
  ELSE [columns |-> AddColumns(df.columns,
                      <<"sample_shift_estimate", "ppm_difference_corrected">>),
        rows |-> [i \in DOMAIN df.rows |->
          LET r   == df.rows[i]
              est == shift_map(shifts, r[sample_column])
          IN  Put(Put(r, "sample_shift_estimate", est),
                  "ppm_difference_corrected", FSub(r[p_column], est))]]

\* a recalculation against the default tolerance of the matcher
recalculate_confidence_default(df, ppm_threshold, p_column) ==
  IF Len(df.rows) = 0 THEN df
  ELSE [columns |-> AddColumn(df.columns, "confidence_corrected"),
        rows |-> [i \in DOMAIN df.rows |->
          Put(df.rows[i], "confidence_corrected",
              PyMax(Zero, FSub(One, FDiv(FAbs(df.rows[i][p_column]),
                                         FInt(100)))))]]

\* a recalculation that writes into the confidence column
recalculate_confidence_inplace(df, ppm_threshold, p_column) ==
  IF Len(df.rows) = 0 THEN df
  ELSE [columns |-> AddColumn(df.columns, "confidence"),
        rows |-> [i \in DOMAIN df.rows |->
          Put(df.rows[i], "confidence",
              PyMax(Zero, FSub(One, FDiv(FAbs(df.rows[i][p_column]),
                                         ppm_threshold))))]]

recalculate_confidence(df, ppm_threshold, p_column) ==
  IF Len(df.rows) = 0 THEN df
  ELSE [columns |-> AddColumn(df.columns, "confidence_corrected"),
        rows |-> [i \in DOMAIN df.rows |->
          Put(df.rows[i], "confidence_corrected",
              PyMax(Zero, FSub(One, FDiv(FAbs(df.rows[i][p_column]),
                                         ppm_threshold))))]]

\* a ladder whose boundaries fall in the lower class
shift_assessment_le(abs_median) ==
  IF FLe(abs_median, FInt(10)) THEN "Excellent"
  ELSE IF FLe(abs_median, FInt(30)) THEN "Good"
  ELSE IF FLe(abs_median, FInt(50)) THEN "Moderate"
  ELSE "High"

\* pipeline.py 42-50
shift_assessment(abs_median) ==
  IF FLt(abs_median, FInt(10)) THEN "Excellent"
  ELSE IF FLt(abs_median, FInt(30)) THEN "Good"
  ELSE IF FLt(abs_median, FInt(50)) THEN "Moderate"
  ELSE "High"

\* a report whose boundaries fall in the lower class
report_assessment_le(median) ==
  IF FLe(FAbs(median), FInt(10)) THEN "[green]Excellent[/green]"
  ELSE IF FLe(FAbs(median), FInt(30)) THEN "[green]Good[/green]"
  ELSE IF FLe(FAbs(median), FInt(50)) THEN "[yellow]Moderate[/yellow]"
  ELSE "[red]High[/red]"

\* calibration.py 132-144: the assessment cell of print_shift_report
report_assessment(median) ==
  IF FLt(FAbs(median), FInt(10)) THEN "[green]Excellent[/green]"
  ELSE IF FLt(FAbs(median), FInt(30)) THEN "[green]Good[/green]"
  ELSE IF FLt(FAbs(median), FInt(50)) THEN "[yellow]Moderate[/yellow]"
  ELSE "[red]High[/red]"

\* the labels print_shift_report (cli) and _build_result (web) give the
\* rows of a shift table
shift_assessments(table) ==
  [g \in DOMAIN table.rows |->
     [cli |-> report_assessment(table.rows[g]["shift_median"]),
      web |-> shift_assessment(FAbs(table.rows[g]["shift_median"]))]]

(***************************************************************************)
(* The inputs of the model.                                                *)
(***************************************************************************)
MaxPeaks == 2
MaxMatches == 3

SeqsUpTo(S, n) == UNION {[1 .. k -> S] : k \in 0 .. n}

peak_columns == <<"m_z", "intens", "sample_sheet">>

Peak(mz, intens, sample) ==
  [m_z |-> mz, intens |-> FInt(intens), sample_sheet |-> sample]

\* the masses 99990000 / 2^16, 99999999 / 2^16 and 100010000 / 2^16 are
\* binary64 values; the middle one lies 100 ppm above the first and 100 ppm
\* below the last
MassBelow == Dec(99990000, 65536)
MassBetween == Dec(99999999, 65536)
MassAbove == Dec(100010000, 65536)

\* 1000.10 and 1000.125 are the decimals 100 and 125 ppm above 1000.00;
\* 1000.02 lies between the reference masses 1000.00 and 1000.05; one peak
\* has no mass, one has no sample name; 999.88 lies 120 ppm below 1000.00;
\* one peak has a text in its mass cell
PeakPool ==
  { Peak(Dec(100010, 100), 1, Str("A")),
    Peak(Dec(100002, 100), 2, Str("A")),
    Peak(Dec(1000125, 1000), 3, Str("B")),
    Peak(NaN, 4, Str("B")),
    Peak(MassBetween, 5, Str("A")),
    Peak(FInt(1000), 6, NaN),
    Peak(Dec(99988, 100), 7, Str("B")),
    Peak(Str("n/a"), 8, Str("A")) }

PeakFrames ==
  {[columns |-> peak_columns, rows |-> rows] : rows \in SeqsUpTo(PeakPool, MaxPeaks)}
  \cup {[columns |-> <<"intens", "sample_sheet">>,
         rows |-> <<[intens |-> FInt(1), sample_sheet |-> Str("A")]>>]}

reference_columns == <<"Mass", "Composition">>

Glycan(mass, composition) == [Mass |-> mass, Composition |-> Str(composition)]

\* the dtypes pandas gives the columns of a reference table with rows
reference_dtypes == [Mass |-> "float64", Composition |-> "object"]

\* a sheet that has only its header is read with object columns
\* (read_glycan_database, io.py); a table built without rows from typed
\* columns keeps float64
ReferenceFrames ==
  { [columns |-> reference_columns, rows |-> <<>>,
     dtypes |-> reference_dtypes],
    [columns |-> reference_columns, rows |-> <<>>,
     dtypes |-> [Mass |-> "object", Composition |-> "object"]],
    [columns |-> reference_columns, dtypes |-> reference_dtypes,
     rows |-> <<Glycan(FInt(1000), "H5N2")>>],
    [columns |-> reference_columns, dtypes |-> reference_dtypes,
     rows |-> <<Glycan(FInt(1000), "H5N2"), Glycan(Dec(100005, 100), "H3N4")>>],
    [columns |-> reference_columns, dtypes |-> reference_dtypes,
     rows |-> <<Glycan(Zero, "H0N0"), Glycan(FInt(1000), "H5N2")>>],
    [columns |-> reference_columns, dtypes |-> reference_dtypes,
     rows |-> <<Glycan(MassBelow, "H6N3"), Glycan(MassAbove, "H4N5")>>],
    [columns |-> <<"Mass", "intens">>,
     dtypes |-> [Mass |-> "float64", intens |-> "float64"],
     rows |-> <<[Mass |-> FInt(1000), intens |-> FInt(7)]>>],
    [columns |-> <<"Composition">>, dtypes |-> [Composition |-> "object"],
     rows |-> <<[Composition |-> Str("H5N2")]>>] }

Thresholds == {FInt(100), FInt(125)}

\* the matched sets handed to the calibrator on its own: rows of a sample
\* name and a whole number of ppm
PpmValues == {20, 22, 24, 40}

calibration_columns == <<"sample_sheet", "ppm_difference">>

MatchOf(sample, ppm) == [sample_sheet |-> sample, ppm_difference |-> FInt(ppm)]

MatchPool ==
  { MatchOf(Str("A"), 20), MatchOf(Str("A"), 22), MatchOf(Str("A"), 24),
    MatchOf(Str("B"), 40), MatchOf(NaN, 22) }

MatchFrames ==
  {[columns |-> calibration_columns, rows |-> rows] :
     rows \in SeqsUpTo(MatchPool, MaxMatches)}
  \cup {[columns |-> <<"ppm_difference">>,
         rows |-> <<[ppm_difference |-> FInt(20)]>>]}
  \cup {EmptyFrame}

ShiftOf(sample, median) ==
  [sample_sheet |-> sample, shift_median |-> median, shift_mean |-> median,
   shift_std |-> NaN, n_peaks |-> 1]

\* shift tables that were not estimated from the matched set in hand
ShiftTables ==
  { [columns |-> shift_columns, rows |-> <<ShiftOf(Str("A"), FInt(20))>>],
    [columns |-> shift_columns, rows |-> <<ShiftOf(Str("B"), FInt(40))>>] }

\* the shift tables handed to the report on its own
MaxShiftRows == 2

ReportMedians ==
  { Zero, FNeg(FInt(5)), Dec(999, 100), FInt(10), FNeg(FInt(10)), FInt(20),
    Dec(2999, 100), FInt(30), FNeg(FInt(30)), Dec(4999, 100), FInt(50),
    FNeg(FInt(50)), FInt(75) }

ReportTables ==
  {[columns |-> shift_columns,
    rows |-> [g \in DOMAIN medians |->
                ShiftOf(Str(SampleNames[((g - 1) % Len(SampleNames)) + 1]),
                        medians[g])]] :
     medians \in SeqsUpTo(ReportMedians, MaxShiftRows)}

VARIABLES
  peaks_df,        \* the peaks passed to match_peaks_to_glycans
  reference_df,    \* the reference table passed to it
  ppm_threshold,   \* the tolerance of the run
  pc,              \* where the run is
  idx,             \* the number of peaks the loop has taken
  matched_rows,    \* the loop's lists
  unmatched_rows,
  matched_df,      \* what match_peaks_to_glycans returned
  unmatched_df,
  shifts,          \* the shift table in hand
  corrected_df,    \* what apply_shift_correction returned
  final_df,        \* what recalculate_confidence returned
  second_shifts,   \* what estimate_sample_shift returned for the corrected set
  assessments,     \* the labels of the shift report, one per shift row
  raised,          \* the exception that ended the run, if any
  stats,           \* what get_match_statistics returned
  sessions,        \* routes.py 25: the session store of the web backend
  queues,          \* the asyncio.Queue of every session
  pipelines,       \* the run_pipeline thread of every session
  requests,        \* the HTTP requests in hand
  sockets,         \* the WebSocket handlers
  files            \* the files under SESSIONS_ROOT, as <<sid, name>>

vars == <<peaks_df, reference_df, ppm_threshold, pc, idx, matched_rows,
          unmatched_rows, matched_df, unmatched_df, shifts, corrected_df,
          final_df, second_shifts, assessments, raised, stats, sessions,
          queues, pipelines, requests, sockets, files>>

web == <<sessions, queues, pipelines, requests, sockets, files>>

\* no statistics yet
NoStats == <<>>

\* the web backend is not part of the run
WebIdle ==
  /\ sessions = <<>>
  /\ queues = <<>>
  /\ pipelines = <<>>
  /\ requests = <<>>
  /\ sockets = <<>>
  /\ files = {}

reports == <<second_shifts, assessments>>

inputs == <<peaks_df, reference_df, ppm_threshold>>

Init ==
  /\ peaks_df \in PeakFrames
  /\ reference_df \in ReferenceFrames
  /\ ppm_threshold \in Thresholds
  /\ pc = "start"
  /\ idx = 0
  /\ matched_rows = <<>>
  /\ unmatched_rows = <<>>
  /\ matched_df = EmptyFrame
  /\ unmatched_df = EmptyFrame
  /\ shifts = EmptyFrame
  /\ corrected_df = EmptyFrame
  /\ final_df = EmptyFrame
  /\ second_shifts = EmptyFrame
  /\ assessments = <<>>
  /\ raised = NoError
  /\ stats = NoStats
  /\ WebIdle

\* matching.py 56-64: the column checks, then the empty lists
MatchStart ==
  /\ pc = "start"
  /\ LET missing == MissingColumn(peaks_df, reference_df)
     IN  IF missing # ""
         THEN /\ raised' = ValueError(missing)
              /\ pc' = "raised"
         ELSE /\ pc' = "loop"
              /\ UNCHANGED raised
  /\ UNCHANGED <<web, stats, inputs, reports, idx, matched_rows, unmatched_rows, matched_df,
                 unmatched_df, shifts, corrected_df, final_df>>

\* matching.py 67-107: one peak; the subtraction of line 17 can raise a
\* TypeError on a mass cell that holds a text
MatchPeak ==
  /\ pc = "loop"
  /\ idx < Len(peaks_df.rows)
  /\ IF subtraction_raises(peaks_df.rows[idx + 1][mz_column], reference_df)
     THEN /\ raised' = TypeError(mz_column)
          /\ pc' = "raised"
          /\ UNCHANGED <<idx, matched_rows, unmatched_rows>>
     ELSE /\ LET out == match_one_peak(peaks_df.rows[idx + 1], reference_df,
                                       ppm_threshold, matched_rows,
                                       unmatched_rows)
             IN  /\ matched_rows' = out.matched
                 /\ unmatched_rows' = out.unmatched
          /\ idx' = idx + 1
          /\ UNCHANGED <<pc, raised>>
  /\ UNCHANGED <<web, stats, inputs, reports, matched_df, unmatched_df, shifts, corrected_df,
                 final_df>>

\* matching.py 109-112
MatchReturn ==
  /\ pc = "loop"
  /\ idx = Len(peaks_df.rows)
  /\ matched_df' = frame_of(matched_rows, matched_columns(peaks_df, reference_df))
  /\ unmatched_df' = frame_of(unmatched_rows, peaks_df.columns)
  /\ pc' = "returned"
  /\ UNCHANGED <<web, stats, inputs, reports, idx, matched_rows, unmatched_rows, shifts,
                 corrected_df, final_df, raised>>

\* cli.py 196, pipeline.py 131: the statistics of the run, taken when the
\* matcher has returned and before the shifts are estimated; "matched" is
\* the caller with the matched set in hand, at cli.py 205, pipeline.py 141
MatchStatistics ==
  /\ pc = "returned"
  /\ stats' = get_match_statistics(matched_df, unmatched_df, peaks_df)
  /\ pc' = "matched"
  /\ UNCHANGED <<web, inputs, reports, idx, matched_rows, unmatched_rows,
                 matched_df, unmatched_df, shifts, corrected_df, final_df,
                 raised>>

\* cli.py 205, pipeline.py 141
EstimateShift ==
  /\ pc = "matched"
  /\ LET missing == estimate_missing_column(matched_df, ppm_column)
     IN  IF missing # ""
         THEN /\ raised' = KeyError(missing)
              /\ pc' = "raised"
              /\ UNCHANGED shifts
         ELSE /\ shifts' = estimate_sample_shift(matched_df, ppm_column)
              /\ pc' = "estimated"
              /\ UNCHANGED raised
  /\ UNCHANGED <<web, stats, inputs, reports, idx, matched_rows, unmatched_rows, matched_df,
                 unmatched_df, corrected_df, final_df>>

\* cli.py 209, pipeline.py 142; "supplied" is a shift table of the caller's
ApplyShift ==
  /\ pc \in {"estimated", "supplied"}
  /\ LET missing == apply_missing_column(matched_df, shifts, ppm_column)
     IN  IF missing # ""
         THEN /\ raised' = KeyError(missing)
              /\ pc' = "raised"
              /\ UNCHANGED corrected_df
         ELSE /\ corrected_df' =
                   apply_shift_correction(matched_df, shifts, ppm_column)
              /\ pc' = "corrected"
              /\ UNCHANGED raised
  /\ UNCHANGED <<web, stats, inputs, reports, idx, matched_rows, unmatched_rows, matched_df,
                 unmatched_df, shifts, final_df>>

\* cli.py 210, pipeline.py 143
RecalculateConfidence ==
  /\ pc = "corrected"
  /\ final_df' = recalculate_confidence(corrected_df, ppm_threshold,
                                        "ppm_difference_corrected")
  /\ pc' = "done"
  /\ UNCHANGED <<web, stats, inputs, reports, idx, matched_rows, unmatched_rows, matched_df,
                 unmatched_df, shifts, corrected_df, raised>>

\* calibration.py 11-52 called once more, on the corrected set and with
\* ppm_difference_corrected as the column, by a caller of the library
\* (cli.py and pipeline.py end at recalculate_confidence)
EstimateAgain ==
  /\ pc = "done"
  /\ second_shifts' = estimate_sample_shift(final_df, "ppm_difference_corrected")
  /\ pc' = "reestimated"
  /\ UNCHANGED <<web, stats, inputs, assessments, idx, matched_rows, unmatched_rows,
                 matched_df, unmatched_df, shifts, corrected_df, final_df,
                 raised>>

\* cli.py 192-210, pipeline.py 128-143
Next ==
  \/ MatchStart
  \/ MatchPeak
  \/ MatchReturn
  \/ MatchStatistics
  \/ EstimateShift
  \/ ApplyShift
  \/ RecalculateConfidence

Spec == Init /\ [][Next]_vars

\* The same calls followed by a second estimate_sample_shift on the set
\* they have corrected: a caller of the library who runs the calibrator
\* once more.
NextRerun ==
  \/ MatchStart
  \/ MatchPeak
  \/ MatchReturn
  \/ MatchStatistics
  \/ EstimateShift
  \/ ApplyShift
  \/ RecalculateConfidence
  \/ EstimateAgain

SpecRerun == Init /\ [][NextRerun]_vars

(***************************************************************************)
(* The calibrator on its own: estimate_sample_shift, apply_shift_correction *)
(* and recalculate_confidence called on a matched set, the shift table      *)
(* either estimated from it or supplied by the caller.                      *)
(***************************************************************************)
InitCal ==
  /\ peaks_df = EmptyFrame
  /\ reference_df = EmptyFrame
  /\ ppm_threshold \in Thresholds
  /\ pc = "matched"
  /\ idx = 0
  /\ matched_rows = <<>>
  /\ unmatched_rows = <<>>
  /\ matched_df \in MatchFrames
  /\ unmatched_df = EmptyFrame
  /\ shifts = EmptyFrame
  /\ corrected_df = EmptyFrame
  /\ final_df = EmptyFrame
  /\ second_shifts = EmptyFrame
  /\ assessments = <<>>
  /\ raised = NoError
  /\ stats = NoStats
  /\ WebIdle

\* calibration.py 55-59: shifts_df is a parameter of apply_shift_correction
SupplyShifts ==
  /\ pc = "matched"
  /\ shifts' \in ShiftTables
  /\ pc' = "supplied"
  /\ UNCHANGED <<web, stats, inputs, reports, idx, matched_rows, unmatched_rows, matched_df,
                 unmatched_df, corrected_df, final_df, raised>>

NextCal ==
  \/ EstimateShift
  \/ SupplyShifts
  \/ ApplyShift
  \/ RecalculateConfidence

SpecCal == InitCal /\ [][NextCal]_vars

(***************************************************************************)
(* The shift report on its own: print_shift_report (cli.py 206) and the    *)
(* shift rows of _build_result (pipeline.py 236-245) on a shift table.     *)
(***************************************************************************)
InitReport ==
  /\ peaks_df = EmptyFrame
  /\ reference_df = EmptyFrame
  /\ ppm_threshold \in Thresholds
  /\ pc = "estimated"
  /\ idx = 0
  /\ matched_rows = <<>>
  /\ unmatched_rows = <<>>
  /\ matched_df = EmptyFrame
  /\ unmatched_df = EmptyFrame
  /\ shifts \in ReportTables
  /\ corrected_df = EmptyFrame
  /\ final_df = EmptyFrame
  /\ second_shifts = EmptyFrame
  /\ assessments = <<>>
  /\ raised = NoError
  /\ stats = NoStats
  /\ WebIdle

ReportShifts ==
  /\ pc = "estimated"
  /\ assessments' = shift_assessments(shifts)
  /\ pc' = "reported"
  /\ UNCHANGED <<web, stats, inputs, second_shifts, idx, matched_rows, unmatched_rows,
                 matched_df, unmatched_df, shifts, corrected_df, final_df,
                 raised>>

NextReport == ReportShifts

SpecReport == InitReport /\ [][NextReport]_vars

(***************************************************************************)
(* The web backend.  The handlers are coroutines of one event loop: a      *)
(* handler runs without interruption from one await that suspends it to    *)
(* the next, and each such stretch is one action.  run_pipeline runs in a  *)
(* thread of its own and reaches the loop only through emit.               *)
(***************************************************************************)
core == <<peaks_df, reference_df, ppm_threshold, pc, idx, matched_rows,
          unmatched_rows, matched_df, unmatched_df, shifts, corrected_df,
          final_df, second_shifts, assessments, raised, stats>>

\* the matcher and the calibrator are not part of the run
CoreIdle ==
  /\ peaks_df = EmptyFrame
  /\ reference_df = EmptyFrame
  /\ ppm_threshold = FInt(100)
  /\ pc = "web"
  /\ idx = 0
  /\ matched_rows = <<>>
  /\ unmatched_rows = <<>>
  /\ matched_df = EmptyFrame
  /\ unmatched_df = EmptyFrame
  /\ shifts = EmptyFrame
  /\ corrected_df = EmptyFrame
  /\ final_df = EmptyFrame
  /\ second_shifts = EmptyFrame
  /\ assessments = <<>>
  /\ raised = NoError
  /\ stats = NoStats

\* routes.py 20
MAX_SESSIONS == 50

\* pipeline.py 39
TOTAL_STEPS == 7

\* an attribute that is None, and one that holds x
None == <<>>
Some(x) == <<x>>

\* models.py 30-50, 97-106
ProgressMessage(step) == [type |-> "progress", step |-> step, status |-> "running"]
StepCompleteMessage(step) == [type |-> "step_complete", step |-> step, status |-> "done"]
ErrorMessage(step) == [type |-> "error", step |-> step, message |-> "Exception"]
CompleteMessage(sid, downloads) ==
  [type |-> "complete", session_id |-> sid, downloads |-> downloads]

\* app.py 87, 91: isinstance(msg, CompleteMessage), isinstance(msg, ErrorMessage)
is_terminal(msg) == msg.type \in {"complete", "error"}

\* routes.py 113-119: the session upload registers (its queue is in queues)
new_session == [status |-> "running", result |-> None, error |-> None]

\* routes.py 112: asyncio.Queue(); scheduled are the put_nowait calls that
\* emit has handed to the loop and the loop has not run yet
new_queue == [scheduled |-> <<>>, items |-> <<>>]

\* routes.py 123-139: the thread as t.start() leaves it (pipeline.py 74);
\* raised: the except clause has caught an exception (pipeline.py 178)
new_pipeline == [step |-> 0, phase |-> "start", written |-> 0,
                 downloads |-> <<>>, raised |-> FALSE]

\* files holds the entries under SESSIONS_ROOT: <<sid, name>> for a file of
\* a session directory and <<sid, ".">> for the directory itself
directory(sid) == <<sid, ".">>

\* routes.py 83
active_sessions(store) ==
  Cardinality({sid \in DOMAIN store :
                 store[sid].status \in {"pending", "running"}})

\* routes.py 94: uuid.uuid4().hex, an id no other session has
uuid4(r) == MAX_SESSIONS + r

\* routes.py 98-107: the files an upload leaves in its directory
saved_names(request) ==
  IF request.db THEN {"peaks.xlsx", "metadata.xlsx", "glycan_db.xlsx"}
  ELSE {"peaks.xlsx", "metadata.xlsx"}

\* routes.py 110-145: the session is registered, its thread started and
\* the response returned
Registered(r) ==
  /\ sessions' = sessions @@ (requests[r].sid :> new_session)
  /\ queues' = queues @@ (requests[r].sid :> new_queue)
  /\ pipelines' = pipelines @@ (requests[r].sid :> new_pipeline)
  /\ requests' = [requests EXCEPT ![r].pc = "returned", ![r].code = 200]

\* routes.py 62-66: a read has taken the file over the size limit; the
\* file being written is unlinked and the request answered
Refused(r, name) ==
  /\ files' = files \ {<<requests[r].sid, name>>}
  /\ requests' = [requests EXCEPT ![r].pc = "returned", ![r].code = 400]
  /\ UNCHANGED <<sessions, queues, pipelines>>

\* routes.py 61-62: open() has created the file and the handler is
\* suspended in a read of it
Saving(r, name, at) ==
  /\ files' = files \cup {<<requests[r].sid, name>>}
  /\ requests' = [requests EXCEPT ![r].pc = at]
  /\ UNCHANGED <<sessions, queues, pipelines>>

\* routes.py 83-101: the session limit, the validation and the directory.
\* The reads of an upload held in memory return at once, so the handler
\* runs to its end; the reads of an upload spooled to disk (over 1 MB) go
\* through the thread pool and suspend the handler, first in peaks.xlsx
UploadBegin(r) ==
  /\ requests[r].pc = "arrived"
  /\ IF active_sessions(sessions) >= MAX_SESSIONS
     THEN /\ requests' = [requests EXCEPT ![r].pc = "returned", ![r].code = 503]
          /\ UNCHANGED <<sessions, queues, pipelines, files>>
     ELSE IF ~requests[r].valid
     THEN /\ requests' = [requests EXCEPT ![r].pc = "returned", ![r].code = 400]
          /\ UNCHANGED <<sessions, queues, pipelines, files>>
     ELSE IF requests[r].spooled
     THEN /\ requests' = [requests EXCEPT ![r].pc = "peaks", ![r].sid = uuid4(r)]
          /\ files' = files \cup {directory(uuid4(r)),
                                   <<uuid4(r), "peaks.xlsx">>}
          /\ UNCHANGED <<sessions, queues, pipelines>>
     ELSE /\ files' = files \cup {directory(uuid4(r))}
                         \cup {<<uuid4(r), name>> :
                                 name \in saved_names(requests[r])}
          /\ sessions' = sessions @@ (uuid4(r) :> new_session)
          /\ queues' = queues @@ (uuid4(r) :> new_queue)
          /\ pipelines' = pipelines @@ (uuid4(r) :> new_pipeline)
          /\ requests' = [requests EXCEPT ![r].pc = "returned",
                                          ![r].code = 200,
                                          ![r].sid = uuid4(r)]
  /\ UNCHANGED <<core, sockets>>

\* routes.py 58-67, 101-102: the reads of peaks_file have returned; it is
\* over the limit, or the handler goes on to metadata.xlsx
UploadPeaks(r) ==
  /\ requests[r].pc = "peaks"
  /\ IF requests[r].over = "peaks_file" THEN Refused(r, "peaks.xlsx")
     ELSE Saving(r, "metadata.xlsx", "metadata")
  /\ UNCHANGED <<core, sockets>>

\* routes.py 58-67, 102-145: the reads of metadata_file have returned; it
\* is over the limit, or the handler goes on to glycan_db.xlsx, or there
\* is no such file and the session is registered
UploadMetadata(r) ==
  /\ requests[r].pc = "metadata"
  /\ IF requests[r].over = "metadata_file" THEN Refused(r, "metadata.xlsx")
     ELSE IF requests[r].db THEN Saving(r, "glycan_db.xlsx", "glycan_db")
     ELSE Registered(r) /\ UNCHANGED files
  /\ UNCHANGED <<core, sockets>>

\* routes.py 58-67, 105-145: the reads of glycan_db_file have returned
UploadGlycanDb(r) ==
  /\ requests[r].pc = "glycan_db"
  /\ IF requests[r].over = "glycan_db_file" THEN Refused(r, "glycan_db.xlsx")
     ELSE Registered(r) /\ UNCHANGED files
  /\ UNCHANGED <<core, sockets>>

\* the upload requests of a run
MaxUploads == 3

\* the sessions that are running when the requests arrive
MaxIdle == 2

Upload(valid, spooled, db, over) ==
  [pc |-> "arrived", valid |-> valid, spooled |-> spooled, db |-> db,
   over |-> over, code |-> 0, sid |-> 0]

\* the kinds of upload: one that fails the validation; uploads held in
\* memory, without and with a glycan_db_file; uploads spooled to disk, of
\* which one file may turn out to be over the size limit when it is read
UploadKinds ==
  << Upload(FALSE, FALSE, FALSE, ""),
     Upload(TRUE, FALSE, FALSE, ""),
     Upload(TRUE, FALSE, TRUE, ""),
     Upload(TRUE, TRUE, FALSE, ""),
     Upload(TRUE, TRUE, FALSE, "peaks_file"),
     Upload(TRUE, TRUE, FALSE, "metadata_file"),
     Upload(TRUE, TRUE, TRUE, ""),
     Upload(TRUE, TRUE, TRUE, "peaks_file"),
     Upload(TRUE, TRUE, TRUE, "metadata_file"),
     Upload(TRUE, TRUE, TRUE, "glycan_db_file") >>

\* the requests of a run: any kinds, listed by kind (the handlers take
\* them in any order)
UploadRequests ==
  {[r \in 1 .. MaxUploads |-> UploadKinds[k[r]]] :
     k \in {k \in [1 .. MaxUploads -> DOMAIN UploadKinds] :
              \A r \in 1 .. MaxUploads - 1 : k[r] <= k[r + 1]}}

\* a thread in the middle of step 6
busy_pipeline == [step |-> 6, phase |-> "working", written |-> 0,
                  downloads |-> <<>>, raised |-> FALSE]

busy_queue == [scheduled |-> <<>>, items |-> <<ProgressMessage(6)>>]

InitUpload ==
  /\ CoreIdle
  /\ \E n \in MAX_SESSIONS - MaxIdle .. MAX_SESSIONS :
       /\ sessions = [sid \in 1 .. n |-> new_session]
       /\ queues = [sid \in 1 .. n |-> busy_queue]
       /\ pipelines = [sid \in 1 .. n |-> busy_pipeline]
       /\ files = {<<sid, name>> : sid \in 1 .. n,
                                   name \in {".", "peaks.xlsx", "metadata.xlsx"}}
  /\ requests \in UploadRequests
  /\ sockets = <<>>

NextUpload ==
  \/ \E r \in DOMAIN requests : UploadBegin(r)
  \/ \E r \in DOMAIN requests : UploadPeaks(r)
  \/ \E r \in DOMAIN requests : UploadMetadata(r)
  \/ \E r \in DOMAIN requests : UploadGlycanDb(r)

SpecUpload == InitUpload /\ [][NextUpload]_vars

(***************************************************************************)
(* run_pipeline (pipeline.py 53-180), one thread per session.              *)
(***************************************************************************)
\* pipeline.py 71-72: loop.call_soon_threadsafe(queue.put_nowait, msg)
emit(queue, msg) == [queue EXCEPT !.scheduled = Append(@, msg)]

\* a step that reports its failure under the number of the step before
step_outcome_stale(step, ok) ==
  IF ok THEN StepCompleteMessage(step) ELSE ErrorMessage(step - 1)

\* what a step emits when its work is over: the StepCompleteMessage, or the
\* ErrorMessage of the except clause (pipeline.py 178-179)
step_outcome(step, ok) ==
  IF ok THEN StepCompleteMessage(step) ELSE ErrorMessage(step)

\* pipeline.py 161-164
downloads_of(has_unmatched) ==
  IF has_unmatched THEN <<"matched_glycans.tsv", "unmatched_peaks.tsv">>
  ELSE <<"matched_glycans.tsv">>

\* the file the next write_tsv of step 7 makes (pipeline.py 159, 163),
\* `written` of them made before
written_by(sid, written) == <<sid, downloads_of(TRUE)[written + 1]>>

\* step = k and emit(ProgressMessage(...)): pipeline.py 78-79, 90-91, ...
PipelineProgress(sid) ==
  /\ pipelines[sid].phase \in {"start", "stepped"}
  /\ pipelines[sid].step < TOTAL_STEPS
  /\ pipelines' = [pipelines EXCEPT ![sid].step = @ + 1,
                                    ![sid].phase = "working"]
  /\ queues' = [queues EXCEPT
                  ![sid] = emit(@, ProgressMessage(pipelines[sid].step + 1))]
  /\ UNCHANGED <<core, sessions, requests, sockets, files>>

\* pipeline.py 159, 163: a write_tsv of step 7 makes its file in the
\* session directory (to_csv, io.py 167); the thread holds no lock, so the
\* loop may run its handlers before the next one.  The second file is
\* written when unmatched_df has rows
PipelineWrite(sid) ==
  /\ pipelines[sid].phase = "working"
  /\ pipelines[sid].step = TOTAL_STEPS
  /\ pipelines[sid].written < Len(downloads_of(TRUE))
  /\ directory(sid) \in files
  /\ files' = files \cup {written_by(sid, pipelines[sid].written)}
  /\ pipelines' = [pipelines EXCEPT ![sid].written = @ + 1]
  /\ UNCHANGED <<core, sessions, queues, requests, sockets>>

\* the work of a step is over and its StepCompleteMessage is emitted, or
\* an exception in it and the ErrorMessage.  Step 7 is over when it has
\* written matched_glycans.tsv and unmatched_df has no rows, or when it has
\* written both files; it may fail before, between and after its writes
\* (write_tsv ends with a console.print, io.py 168)
PipelineWork(sid) ==
  /\ pipelines[sid].phase = "working"
  /\ \E ok \in BOOLEAN :
       /\ ok /\ pipelines[sid].step = TOTAL_STEPS
            => pipelines[sid].written > 0
       /\ queues' = [queues EXCEPT
                       ![sid] = emit(@, step_outcome(pipelines[sid].step, ok))]
       /\ pipelines' =
            [pipelines EXCEPT
               ![sid].phase = IF ~ok THEN "ended"
                              ELSE IF pipelines[sid].step = TOTAL_STEPS
                              THEN "assembling" ELSE "stepped",
               ![sid].downloads =
                  IF ok /\ pipelines[sid].step = TOTAL_STEPS
                  THEN downloads_of(pipelines[sid].written
                                      = Len(downloads_of(TRUE)))
                  ELSE @,
               ![sid].raised = ~ok]
  /\ UNCHANGED <<core, sessions, requests, sockets, files>>

\* pipeline.py 173-179: _build_result and emit(result), or an exception in
\* it and the ErrorMessage
PipelineResult(sid) ==
  /\ pipelines[sid].phase = "assembling"
  /\ \E ok \in BOOLEAN :
       /\ queues' =
            [queues EXCEPT
               ![sid] = emit(@, IF ok
                                THEN CompleteMessage(sid, pipelines[sid].downloads)
                                ELSE ErrorMessage(pipelines[sid].step))]
       /\ pipelines' = [pipelines EXCEPT ![sid].phase = "ended",
                                         ![sid].raised = ~ok]
  /\ UNCHANGED <<core, sessions, requests, sockets, files>>

\* the loop runs the oldest scheduled queue.put_nowait
LoopPut(sid) ==
  /\ queues[sid].scheduled # <<>>
  /\ queues' = [queues EXCEPT
                  ![sid].scheduled = Tail(@),
                  ![sid].items = Append(@, Head(queues[sid].scheduled))]
  /\ UNCHANGED <<core, sessions, pipelines, requests, sockets, files>>

\* the pipeline of one session, with nobody reading its queue
TheSession == MAX_SESSIONS + 1

InitPipeline ==
  /\ CoreIdle
  /\ sessions = (TheSession :> new_session)
  /\ queues = (TheSession :> new_queue)
  /\ pipelines = (TheSession :> new_pipeline)
  /\ requests = <<>>
  /\ sockets = <<>>
  /\ files = {directory(TheSession), <<TheSession, "peaks.xlsx">>,
              <<TheSession, "metadata.xlsx">>}

NextPipeline ==
  \/ PipelineProgress(TheSession)
  \/ PipelineWrite(TheSession)
  \/ PipelineWork(TheSession)
  \/ PipelineResult(TheSession)
  \/ LoopPut(TheSession)

\* the thread runs to its end and the loop runs what is scheduled
SpecPipeline ==
  InitPipeline /\ [][NextPipeline]_vars /\ WF_vars(NextPipeline)

(***************************************************************************)
(* websocket_progress (app.py 64-97), get_session (routes.py 150-176) and  *)
(* the cleanup loop (app.py 23-39) on the sessions of the store.  Nothing  *)
(* is assumed about the speed of the thread or the age of a directory: a   *)
(* round of the cleanup loop may find any directory older than             *)
(* SESSION_MAX_AGE.                                                        *)
(***************************************************************************)
\* a handler that has not been called yet
no_socket == [sid |-> 0, pc |-> "absent", alive |-> FALSE, msg |-> None,
              last |-> None]

\* app.py 70
session_not_found == [type |-> "error", message |-> "Session not found"]

\* a handler that records the status and forgets the payload
session_after_bare(session, msg) ==
  IF msg.type = "complete" THEN [session EXCEPT !.status = "done"]
  ELSE IF msg.type = "error" THEN [session EXCEPT !.status = "error"]
  ELSE session

\* app.py 86-94
session_after(session, msg) ==
  IF msg.type = "complete"
  THEN [session EXCEPT !.status = "done", !.result = Some(msg)]
  ELSE IF msg.type = "error"
  THEN [session EXCEPT !.status = "error", !.error = Some(msg.message)]
  ELSE session

\* a client opens /ws/{sid}
WsConnect(c, sid) ==
  /\ sockets[c].pc = "absent"
  /\ sockets' = [sockets EXCEPT ![c] = [no_socket EXCEPT !.sid = sid,
                                                        !.pc = "accepting",
                                                        !.alive = TRUE]]
  /\ UNCHANGED <<core, sessions, queues, pipelines, requests, files>>

\* the client goes away; the handler is told at its next send
ClientDisconnect(c) ==
  /\ sockets[c].pc \in {"accepting", "waiting", "sending", "refusing",
                        "closing"}
  /\ sockets[c].alive
  /\ sockets' = [sockets EXCEPT ![c].alive = FALSE]
  /\ UNCHANGED <<core, sessions, queues, pipelines, requests, files>>

\* app.py 67-75: after accept, the handler of an unknown session hands
\* "Session not found" to send_json and is suspended there (line 70); the
\* other one goes to its queue
WsAccept(c) ==
  /\ sockets[c].pc = "accepting"
  /\ sockets' =
       [sockets EXCEPT
          ![c].pc = IF sockets[c].sid \in DOMAIN sessions THEN "waiting"
                    ELSE "refusing",
          ![c].msg = IF sockets[c].sid \in DOMAIN sessions THEN @
                     ELSE Some(session_not_found)]
  /\ UNCHANGED <<core, sessions, queues, pipelines, requests, files>>

\* app.py 70-72: send_json returns, the message delivered, and the handler
\* goes on to ws.close(), which suspends it once more or not (the server's
\* choice) before it returns; or the client is gone, send_json raises
\* WebSocketDisconnect outside the try and the handler ends
WsRefuse(c) ==
  /\ sockets[c].pc = "refusing"
  /\ IF sockets[c].alive
     THEN \E suspended \in BOOLEAN :
            sockets' = [sockets EXCEPT
                          ![c].pc = IF suspended THEN "closing" ELSE "closed",
                          ![c].msg = None,
                          ![c].last = sockets[c].msg]
     ELSE sockets' = [sockets EXCEPT ![c].pc = "closed", ![c].msg = None]
  /\ UNCHANGED <<core, sessions, queues, pipelines, requests, files>>

\* app.py 71-72: ws.close() returns and the handler with it
WsClose(c) ==
  /\ sockets[c].pc = "closing"
  /\ sockets' = [sockets EXCEPT ![c].pc = "closed"]
  /\ UNCHANGED <<core, sessions, queues, pipelines, requests, files>>

\* app.py 79: queue.get() returns the oldest message
WsGet(c) ==
  /\ sockets[c].pc = "waiting"
  /\ queues[sockets[c].sid].items # <<>>
  /\ sockets' = [sockets EXCEPT
                   ![c].pc = "sending",
                   ![c].msg = Some(Head(queues[sockets[c].sid].items))]
  /\ queues' = [queues EXCEPT ![sockets[c].sid].items = Tail(@)]
  /\ UNCHANGED <<core, sessions, pipelines, requests, files>>

\* app.py 84-97: send_json returns and a terminal message is recorded in
\* the session, or the client is gone and the handler ends.  The handler
\* writes to the dict it took from the store at line 74: when the cleanup
\* loop has popped it since, the store does not change
WsSend(c) ==
  /\ sockets[c].pc = "sending"
  /\ IF sockets[c].alive
     THEN /\ sockets' =
               [sockets EXCEPT
                  ![c].pc = IF is_terminal(sockets[c].msg[1]) THEN "closed"
                            ELSE "waiting",
                  ![c].msg = None,
                  ![c].last = sockets[c].msg]
          /\ IF sockets[c].sid \in DOMAIN sessions
             THEN sessions' =
                    [sessions EXCEPT
                       ![sockets[c].sid] = session_after(@, sockets[c].msg[1])]
             ELSE UNCHANGED sessions
     ELSE /\ sockets' = [sockets EXCEPT ![c].pc = "closed", ![c].msg = None]
          /\ UNCHANGED sessions
  /\ UNCHANGED <<core, queues, pipelines, requests, files>>

\* routes.py 150-176; requests holds the latest response
session_response(store, disk, sid) ==
  IF sid \in DOMAIN store
  THEN [code |-> 200, session_id |-> sid, status |-> store[sid].status,
        result |-> store[sid].result, error |-> store[sid].error,
        note |-> None]
  ELSE IF \E name \in {"matched_glycans.tsv", "unmatched_peaks.tsv"} :
            <<sid, name>> \in disk
  THEN [code |-> 200, session_id |-> sid, status |-> "done",
        result |-> None, error |-> None,
        note |-> Some("Session restored from disk")]
  ELSE [code |-> 404, session_id |-> sid, status |-> "", result |-> None,
        error |-> None, note |-> None]

GetSession(sid) ==
  /\ requests' = <<session_response(sessions, files, sid)>>
  /\ UNCHANGED <<core, sessions, queues, pipelines, sockets, files>>

\* the writes of step 7 that the thread of sid can make while a rmtree is
\* under way
racing_writes(sid) ==
  IF sid \in DOMAIN pipelines
  THEN IF pipelines[sid].phase = "working"
          /\ pipelines[sid].step = TOTAL_STEPS
       THEN Len(downloads_of(TRUE)) - pipelines[sid].written
       ELSE 0
  ELSE 0

\* app.py 26-39: one round of the cleanup loop, which runs without an
\* await from sleep to sleep.  It finds the directories of `expired` older
\* than SESSION_MAX_AGE; shutil.rmtree removes what it finds in each and
\* then the directory, and the session is popped from the store.  The
\* thread of a session is not stopped: the files it makes while rmtree is
\* under way (raced[sid] of them) stay, and with them the directory, whose
\* rmdir fails and is ignored
Cleanup(expired, raced) ==
  /\ expired # {}
  /\ \A sid \in expired :
       directory(sid) \in files /\ raced[sid] <= racing_writes(sid)
  /\ files' =
       {f \in files : f[1] \notin expired}
       \cup {directory(sid) : sid \in {x \in expired : raced[x] > 0}}
       \cup UNION {{written_by(sid, pipelines[sid].written + k) :
                      k \in 0 .. raced[sid] - 1} :
                    sid \in {x \in expired : raced[x] > 0}}
  /\ pipelines' =
       [sid \in DOMAIN pipelines |->
          IF sid \in expired
          THEN [pipelines[sid] EXCEPT !.written = @ + raced[sid]]
          ELSE pipelines[sid]]
  /\ sessions' = [sid \in DOMAIN sessions \ expired |-> sessions[sid]]
  /\ UNCHANGED <<core, queues, requests, sockets>>

\* the WebSocket clients of a run
MaxClients == 2

\* a session of before the last restart of the server, and a session id
\* nobody has
ColdSession == TheSession + 1
LostSession == TheSession + 2

\* the session is in step 6; what it emitted before was taken from its queue
InitSession ==
  /\ CoreIdle
  /\ sessions = (TheSession :> new_session)
  /\ queues = (TheSession :> busy_queue)
  /\ pipelines = (TheSession :> busy_pipeline)
  /\ requests = <<>>
  /\ sockets = [c \in 1 .. MaxClients |-> no_socket]
  /\ files = {directory(TheSession), <<TheSession, "peaks.xlsx">>,
              <<TheSession, "metadata.xlsx">>,
              directory(ColdSession), <<ColdSession, "matched_glycans.tsv">>}

NextSession ==
  \/ PipelineProgress(TheSession)
  \/ PipelineWrite(TheSession)
  \/ PipelineWork(TheSession)
  \/ PipelineResult(TheSession)
  \/ LoopPut(TheSession)
  \/ \E c \in DOMAIN sockets, sid \in {TheSession, ColdSession} :
       WsConnect(c, sid)
  \/ \E c \in DOMAIN sockets : ClientDisconnect(c)
  \/ \E c \in DOMAIN sockets : WsAccept(c)
  \/ \E c \in DOMAIN sockets : WsRefuse(c)
  \/ \E c \in DOMAIN sockets : WsClose(c)
  \/ \E c \in DOMAIN sockets : WsGet(c)
  \/ \E c \in DOMAIN sockets : WsSend(c)
  \/ \E sid \in {TheSession, ColdSession, LostSession} : GetSession(sid)
  \/ \E expired \in SUBSET {TheSession, ColdSession} :
       \E raced \in [expired -> 0 .. Len(downloads_of(TRUE))] :
         Cleanup(expired, raced)

\* the thread and the loop run; nobody has to connect, and the client
\* polls the session for ever
SpecSession ==
  /\ InitSession
  /\ [][NextSession]_vars
  /\ WF_vars(PipelineProgress(TheSession))
  /\ WF_vars(PipelineWrite(TheSession) \/ PipelineWork(TheSession))
  /\ WF_vars(PipelineResult(TheSession))
  /\ WF_vars(LoopPut(TheSession))
  /\ \A c \in 1 .. MaxClients :
       /\ WF_vars(WsAccept(c)) /\ WF_vars(WsGet(c)) /\ WF_vars(WsSend(c))
       /\ WF_vars(WsRefuse(c)) /\ WF_vars(WsClose(c))
  /\ WF_vars(GetSession(TheSession))

\* the store with its one session, whose thread is in step 6, and the
\* directory of that session
InitStore ==
  /\ CoreIdle
  /\ sessions = (TheSession :> new_session)
  /\ queues = (TheSession :> busy_queue)
  /\ pipelines = (TheSession :> busy_pipeline)
  /\ requests = <<>>
  /\ sockets = [c \in 1 .. MaxClients |-> no_socket]
  /\ files = {directory(TheSession), <<TheSession, "peaks.xlsx">>,
              <<TheSession, "metadata.xlsx">>}

\* a session of the store and all that writes to it: its thread, the
\* handlers of its sockets and the cleanup loop.  A handler meets an
\* unknown session when the cleanup loop has popped it before line 69;
\* get_session only reads (routes.py 150-176)
NextStore ==
  \/ PipelineProgress(TheSession)
  \/ PipelineWrite(TheSession)
  \/ PipelineWork(TheSession)
  \/ PipelineResult(TheSession)
  \/ LoopPut(TheSession)
  \/ \E c \in DOMAIN sockets : WsConnect(c, TheSession)
  \/ \E c \in DOMAIN sockets : ClientDisconnect(c)
  \/ \E c \in DOMAIN sockets : WsAccept(c)
  \/ \E c \in DOMAIN sockets : WsRefuse(c)
  \/ \E c \in DOMAIN sockets : WsClose(c)
  \/ \E c \in DOMAIN sockets : WsGet(c)
  \/ \E c \in DOMAIN sockets : WsSend(c)
  \/ \E raced \in [{TheSession} -> 0 .. Len(downloads_of(TRUE))] :
       Cleanup({TheSession}, raced)

SpecStore == InitStore /\ [][NextStore]_vars

(***************************************************************************)
(* download (routes.py 181-197).                                           *)
(***************************************************************************)
\* routes.py 21
DOWNLOAD_WHITELIST == {"matched_glycans.tsv", "unmatched_peaks.tsv"}

\* a download that looks for any file of the session directory
download_response_unlisted(disk, sid, filename) ==
  IF <<sid, filename>> \notin disk
  THEN [code |-> 404, consulted |-> TRUE, served |-> None]
  ELSE [code |-> 200, consulted |-> TRUE, served |-> Some(<<sid, filename>>)]

\* routes.py 184-197; consulted: file_path.is_file() was evaluated
download_response(disk, sid, filename) ==
  IF filename \notin DOWNLOAD_WHITELIST
  THEN [code |-> 400, consulted |-> FALSE, served |-> None]
  ELSE IF <<sid, filename>> \notin disk
  THEN [code |-> 404, consulted |-> TRUE, served |-> None]
  ELSE [code |-> 200, consulted |-> TRUE, served |-> Some(<<sid, filename>>)]

Download(r) ==
  /\ requests[r].pc = "arrived"
  /\ requests' =
       [requests EXCEPT
          ![r].pc = "returned",
          ![r].response = Some(download_response(files, requests[r].sid,
                                                 requests[r].filename))]
  /\ UNCHANGED <<core, sessions, queues, pipelines, sockets, files>>

\* the file names a client asks for
FilenameList ==
  <<"matched_glycans.tsv", "unmatched_peaks.tsv", "peaks.xlsx",
    "metadata.xlsx", "Matched_Glycans.tsv">>

Filenames == {FilenameList[i] : i \in DOMAIN FilenameList}

\* the download requests of a run
MaxDownloads == 3

DownloadSids == <<TheSession, ColdSession, LostSession>>

\* GET /api/download/{sid}/{filename}, the k-th pair of a session id and a
\* file name
DownloadKind(k) ==
  [pc |-> "arrived",
   sid |-> DownloadSids[((k - 1) \div Len(FilenameList)) + 1],
   filename |-> FilenameList[((k - 1) % Len(FilenameList)) + 1],
   response |-> None]

\* the requests of a run: any pairs, listed by kind (the handlers take
\* them in any order)
DownloadRequests ==
  {[r \in 1 .. MaxDownloads |-> DownloadKind(k[r])] :
     k \in {k \in [1 .. MaxDownloads
                    -> 1 .. Len(DownloadSids) * Len(FilenameList)] :
              \A r \in 1 .. MaxDownloads - 1 : k[r] <= k[r + 1]}}

\* what step 7 leaves in a session directory (pipeline.py 157-164)
OutputsOf(sid) ==
  { {}, {<<sid, "matched_glycans.tsv">>},
    {<<sid, "matched_glycans.tsv">>, <<sid, "unmatched_peaks.tsv">>} }

UploadsOf(sid) ==
  {directory(sid), <<sid, "peaks.xlsx">>, <<sid, "metadata.xlsx">>}

\* two session directories with their uploads, and a session id without one
InitDownload ==
  /\ CoreIdle
  /\ sessions = <<>>
  /\ queues = <<>>
  /\ pipelines = <<>>
  /\ sockets = <<>>
  /\ \E a \in OutputsOf(TheSession), b \in OutputsOf(ColdSession) :
       files = UploadsOf(TheSession) \cup UploadsOf(ColdSession) \cup a \cup b
  /\ requests \in DownloadRequests

NextDownload == \E r \in DOMAIN requests : Download(r)

SpecDownload == InitDownload /\ [][NextDownload]_vars

(***************************************************************************)
(* Properties of match_peaks_to_glycans.  They speak about the state in     *)
(* which its caller holds what it has returned, pc = "matched".             *)
(***************************************************************************)
PeakRows == peaks_df.rows
ReferenceRows == reference_df.rows
MatchRows == matched_df.rows
UnmatchedRows == unmatched_df.rows

\* what a Match row carries of its peak (the attributes that no reference
\* attribute is named like) and of its reference entry
PeakPart(r) ==
  [c \in Range(peaks_df.columns) \ Range(reference_df.columns) |-> r[c]]
ReferencePart(r) == [c \in Range(reference_df.columns) |-> r[c]]

PpmOf(peak, ref) == calculate_ppm(peak[mz_column], ref[mass_column])

\* the pair lies within the tolerance
Within(peak, ref) == FLe(FAbs(PpmOf(peak, ref)), ppm_threshold)

HasMass(peak) == ~pd_isna(peak[mz_column])

\* the reference entries within the tolerance of a peak
Accepted(peak) == {j \in DOMAIN ReferenceRows : Within(peak, ReferenceRows[j])}

\* the Match rows of a peak, the Match rows of a pair
RowsOfPeak(peak) ==
  {n \in DOMAIN MatchRows : PeakPart(MatchRows[n]) = PeakPart(peak)}
RowsOfPair(peak, ref) ==
  {n \in RowsOfPeak(peak) : ReferencePart(MatchRows[n]) = ref}

\* how often a row stands in a list
Copies(rows, row) == Cardinality({k \in DOMAIN rows : rows[k] = row})

Peak1000_10 == Dec(100010, 100)
Peak1000_125 == Dec(1000125, 1000)

\* C1: a pair of a peak with a mass and a reference entry has a Match row
\* exactly if the absolute value of its computed ppm_difference is at most
\* ppm_threshold, no Match row lies beyond the threshold, and a row whose
\* ppm_difference equals the threshold in absolute value is there with
\* confidence 0: 1000.125 against 1000.00 at threshold 125.  The computed
\* ppm_difference of 1000.10 against 1000.00 is greater than 100, and the
\* pair has no Match row at threshold 100.
C1_WithinThreshold ==
  pc = "matched" =>
    /\ \A i \in DOMAIN PeakRows : \A j \in DOMAIN ReferenceRows :
         HasMass(PeakRows[i]) =>
           (Within(PeakRows[i], ReferenceRows[j])
              <=> RowsOfPair(PeakRows[i], ReferenceRows[j]) # {})
    /\ \A n \in DOMAIN MatchRows :
         /\ FLe(FAbs(MatchRows[n]["ppm_difference"]), ppm_threshold)
         /\ FEq(FAbs(MatchRows[n]["ppm_difference"]), ppm_threshold)
              => MatchRows[n]["confidence"] = Zero
    /\ \A i \in DOMAIN PeakRows : \A j \in DOMAIN ReferenceRows :
         /\ PeakRows[i][mz_column] = Peak1000_125
         /\ ReferenceRows[j][mass_column] = FInt(1000)
         /\ ppm_threshold = FInt(125)
         => \E n \in RowsOfPair(PeakRows[i], ReferenceRows[j]) :
              /\ MatchRows[n]["ppm_difference"] = FInt(125)
              /\ MatchRows[n]["confidence"] = Zero
    /\ \A i \in DOMAIN PeakRows : \A j \in DOMAIN ReferenceRows :
         /\ PeakRows[i][mz_column] = Peak1000_10
         /\ ReferenceRows[j][mass_column] = FInt(1000)
         /\ ppm_threshold = FInt(100)
         => /\ RowsOfPair(PeakRows[i], ReferenceRows[j]) = {}
            /\ FLt(FInt(100), PpmOf(PeakRows[i], ReferenceRows[j]))

\* a run in which a pair exactly at the threshold was matched and another
\* peak was left unmatched
C1_Witness ==
  /\ pc = "matched"
  /\ ppm_threshold = FInt(125)
  /\ Len(UnmatchedRows) > 0
  /\ \E n \in DOMAIN MatchRows :
       /\ MatchRows[n]["observed_mz"] = Peak1000_125
       /\ MatchRows[n][mass_column] = FInt(1000)
       /\ MatchRows[n]["ppm_difference"] = ppm_threshold
       /\ MatchRows[n]["confidence"] = Zero

\* C1 as stated: the pair 1000.10 against 1000.00 at threshold 100 has a
\* Match row with ppm_difference 100 and confidence 0
C1_AsStated ==
  pc = "matched" =>
    \A i \in DOMAIN PeakRows : \A j \in DOMAIN ReferenceRows :
      /\ PeakRows[i][mz_column] = Peak1000_10
      /\ ReferenceRows[j][mass_column] = FInt(1000)
      /\ ppm_threshold = FInt(100)
      => \E n \in RowsOfPair(PeakRows[i], ReferenceRows[j]) :
           /\ MatchRows[n]["ppm_difference"] = FInt(100)
           /\ MatchRows[n]["confidence"] = Zero

\* C2: a peak without a mass is in neither output and raises nothing; a
\* peak with a mass and no reference entry within the tolerance is once in
\* unmatched and never in matched; a peak with k >= 1 entries within the
\* tolerance has k Match rows and is never in unmatched (each counted per
\* occurrence of the peak in the input).
C2_ExactlyOneOutcome ==
  pc = "matched" =>
    \A i \in DOMAIN PeakRows :
      IF ~HasMass(PeakRows[i])
      THEN /\ RowsOfPeak(PeakRows[i]) = {}
           /\ Copies(UnmatchedRows, PeakRows[i]) = 0
           /\ raised = NoError
      ELSE IF Accepted(PeakRows[i]) = {}
      THEN /\ RowsOfPeak(PeakRows[i]) = {}
           /\ Copies(UnmatchedRows, PeakRows[i]) = Copies(PeakRows, PeakRows[i])
      ELSE /\ Cardinality(RowsOfPeak(PeakRows[i]))
                = Cardinality(Accepted(PeakRows[i])) * Copies(PeakRows, PeakRows[i])
           /\ Copies(UnmatchedRows, PeakRows[i]) = 0

\* a run over a peak that no reference entry is near and a peak with two
\* entries within the tolerance
C2_Witness ==
  /\ pc = "matched"
  /\ \E i, k \in DOMAIN PeakRows :
       /\ HasMass(PeakRows[i])
       /\ Accepted(PeakRows[i]) = {}
       /\ UnmatchedRows = <<PeakRows[i]>>
       /\ Cardinality(Accepted(PeakRows[k])) = 2
       /\ Cardinality(RowsOfPeak(PeakRows[k])) = 2
  /\ Len(MatchRows) = 2

\* C3: a peak with a mass has as many Match rows as reference entries
\* within the tolerance (per occurrence of the peak), one for each of them:
\* it carries the peak's observed_mz and sample name, the entry's
\* attributes, and the ppm_difference and confidence computed for the
\* entry.  The rows of entries with different masses differ in
\* ppm_difference; their confidence need not differ.
C3_RowPerReference ==
  pc = "matched" =>
    \A i \in DOMAIN PeakRows :
      HasMass(PeakRows[i]) =>
        /\ Cardinality(RowsOfPeak(PeakRows[i]))
             = Cardinality(Accepted(PeakRows[i])) * Copies(PeakRows, PeakRows[i])
        /\ \A j \in Accepted(PeakRows[i]) :
             \E n \in RowsOfPair(PeakRows[i], ReferenceRows[j]) :
               /\ MatchRows[n]["observed_mz"] = PeakRows[i][mz_column]
               /\ MatchRows[n][sample_column] = PeakRows[i][sample_column]
               /\ MatchRows[n]["ppm_difference"]
                    = PpmOf(PeakRows[i], ReferenceRows[j])
               /\ MatchRows[n]["confidence"]
                    = calculate_confidence(PpmOf(PeakRows[i], ReferenceRows[j]),
                                           ppm_threshold)
        /\ \A n, m \in RowsOfPeak(PeakRows[i]) :
             MatchRows[n][mass_column] # MatchRows[m][mass_column]
               => MatchRows[n]["ppm_difference"] # MatchRows[m]["ppm_difference"]

\* a run in which one peak has two Match rows, 100 ppm above one reference
\* mass and 100 ppm below the other, both with the same confidence
C3_Witness ==
  /\ pc = "matched"
  /\ Len(PeakRows) = 1
  /\ Len(MatchRows) = 2
  /\ MatchRows[1]["observed_mz"] = MatchRows[2]["observed_mz"]
  /\ MatchRows[1][sample_column] = MatchRows[2][sample_column]
  /\ MatchRows[1][mass_column] # MatchRows[2][mass_column]
  /\ MatchRows[1]["ppm_difference"] = FInt(100)
  /\ MatchRows[2]["ppm_difference"] = FNeg(FInt(100))
  /\ MatchRows[1]["confidence"] = MatchRows[2]["confidence"]

\* C3 as stated: a peak with two reference masses within the tolerance has
\* exactly two Match rows, which share observed_mz and the sample name and
\* differ in ppm_difference, confidence and the reference attributes
C3_AsStated ==
  pc = "matched" =>
    \A i \in DOMAIN PeakRows :
      /\ HasMass(PeakRows[i])
      /\ Copies(PeakRows, PeakRows[i]) = 1
      /\ Cardinality(Accepted(PeakRows[i])) = 2
      => /\ Cardinality(RowsOfPeak(PeakRows[i])) = 2
         /\ \A n, m \in RowsOfPeak(PeakRows[i]) :
              n # m =>
                /\ MatchRows[n]["observed_mz"] = MatchRows[m]["observed_mz"]
                /\ MatchRows[n][sample_column] = MatchRows[m][sample_column]
                /\ MatchRows[n]["ppm_difference"] # MatchRows[m]["ppm_difference"]
                /\ MatchRows[n]["confidence"] # MatchRows[m]["confidence"]
                /\ ReferencePart(MatchRows[n]) # ReferencePart(MatchRows[m])

\* the pairs within the tolerance, peak by peak and, within a peak, in the
\* order of the reference table
PairsOfPeak(i) ==
  IF ~HasMass(PeakRows[i]) THEN <<>>
  ELSE SelectSeq([j \in DOMAIN ReferenceRows |-> <<i, j>>],
                 LAMBDA p : Within(PeakRows[p[1]], ReferenceRows[p[2]]))

RECURSIVE PairsUpTo(_)
PairsUpTo(i) == IF i = 0 THEN <<>> ELSE PairsUpTo(i - 1) \o PairsOfPeak(i)

\* the rows are those of the pairs, in their order and with their values
RowsAre(pairs) ==
  /\ Len(MatchRows) = Len(pairs)
  /\ \A n \in DOMAIN pairs :
       /\ PeakPart(MatchRows[n]) = PeakPart(PeakRows[pairs[n][1]])
       /\ ReferencePart(MatchRows[n]) = ReferenceRows[pairs[n][2]]
       /\ MatchRows[n]["ppm_difference"]
            = PpmOf(PeakRows[pairs[n][1]], ReferenceRows[pairs[n][2]])
       /\ MatchRows[n]["confidence"]
            = calculate_confidence(MatchRows[n]["ppm_difference"], ppm_threshold)

\* C4: the Match rows are ordered by peak in input order and, within a
\* peak, by reference entry in table order; the unmatched peaks stand in
\* input order; every row and its place are determined by the inputs, so
\* two runs on the same inputs return the same sequences.
C4_OutputOrder ==
  pc = "matched" =>
    /\ RowsAre(PairsUpTo(Len(PeakRows)))
    /\ UnmatchedRows
         = SelectSeq(PeakRows, LAMBDA r : HasMass(r) /\ Accepted(r) = {})

\* a run whose first peak has two Match rows and whose second peak has one
C4_Witness ==
  /\ pc = "matched"
  /\ Len(PeakRows) = 2
  /\ PeakRows[1] # PeakRows[2]
  /\ Len(MatchRows) = 3
  /\ PeakPart(MatchRows[1]) = PeakPart(PeakRows[1])
  /\ PeakPart(MatchRows[2]) = PeakPart(PeakRows[1])
  /\ PeakPart(MatchRows[3]) = PeakPart(PeakRows[2])
  /\ ReferencePart(MatchRows[1]) = ReferenceRows[1]
  /\ ReferencePart(MatchRows[2]) = ReferenceRows[2]

\* the reference table has an entry of mass 0 (and both mass columns exist)
HasZeroMass ==
  /\ HasColumn(peaks_df, mz_column)
  /\ HasColumn(reference_df, mass_column)
  /\ \E j \in DOMAIN ReferenceRows : IsZero(ReferenceRows[j][mass_column])

\* C5: with a reference entry of mass 0 the matcher fails with
\* DivisionDomainError: it takes no Match rows and does not return.
C5_DivisionDomainError ==
  HasZeroMass =>
    /\ matched_rows = <<>>
    /\ pc \in {"start", "loop", "raised"}
    /\ pc = "raised" => raised.type = "DivisionDomainError"

\* C6: when the peaks lack the observed-mass column or the reference table
\* lacks the mass column, match_peaks_to_glycans raises an error (a
\* ValueError) that names the missing column, before it takes any peak; it
\* raises no such error otherwise.
C6_MissingColumnError ==
  /\ ~HasColumn(peaks_df, mz_column) \/ ~HasColumn(reference_df, mass_column)
       => /\ pc \in {"start", "raised"}
          /\ idx = 0 /\ matched_rows = <<>> /\ unmatched_rows = <<>>
          /\ matched_df = EmptyFrame /\ unmatched_df = EmptyFrame
          /\ pc = "raised" =>
               /\ raised.type = "ValueError"
               /\ \/ raised.field = mz_column /\ ~HasColumn(peaks_df, mz_column)
                  \/ raised.field = mass_column
                       /\ ~HasColumn(reference_df, mass_column)
  /\ raised.type = "ValueError"
       => ~HasColumn(peaks_df, mz_column) \/ ~HasColumn(reference_df, mass_column)

\* a run over two peaks that ended on the missing reference mass column
C6_Witness ==
  /\ pc = "raised"
  /\ raised = ValueError(mass_column)
  /\ Len(PeakRows) = 2
  /\ HasColumn(peaks_df, mz_column)
  /\ idx = 0

(***************************************************************************)
(* Properties of the calibrator.                                            *)
(***************************************************************************)
ShiftRows == shifts.rows
CorrectedRows == corrected_df.rows

\* the shift rows of a sample name
ShiftRowsOf(sample) ==
  {g \in DOMAIN ShiftRows : ShiftRows[g][sample_column] = sample}

\* C7: apply_shift_correction fails with MissingShiftError when the sample
\* of a Match has no row in the shift table: it does not return then, and
\* no row it returns has an undefined sample_shift_estimate or an undefined
\* ppm_difference_corrected.
C7_MissingShiftError ==
  pc \in {"corrected", "done"} =>
    /\ \A n \in DOMAIN MatchRows :
         ShiftRowsOf(MatchRows[n][sample_column]) # {}
    /\ \A n \in DOMAIN CorrectedRows :
         /\ ~pd_isna(CorrectedRows[n]["sample_shift_estimate"])
         /\ ~pd_isna(CorrectedRows[n]["ppm_difference_corrected"])

\* C8: in the pipeline, when the shifts have been estimated and the
\* correction is about to be applied, the sample of every Match row has
\* exactly one row in the shift table, a missing sample name included.
C8_ShiftRowForEveryMatch ==
  pc = "estimated" =>
    \A n \in DOMAIN MatchRows :
      Cardinality(ShiftRowsOf(MatchRows[n][sample_column])) = 1

\* the Match rows of a sample name
MatchRowsOf(sample) ==
  {n \in DOMAIN MatchRows : MatchRows[n][sample_column] = sample}

\* C9: the table estimate_sample_shift returns has exactly one row for
\* every sample name that a Match row carries and none for a sample
\* without Match rows, no other rows, and n_peaks is the number of Match
\* rows of the sample.
C9_RowPerSample ==
  pc = "estimated" =>
    /\ \A i \in DOMAIN SampleNames :
         Cardinality(ShiftRowsOf(Str(SampleNames[i])))
           = IF MatchRowsOf(Str(SampleNames[i])) = {} THEN 0 ELSE 1
    /\ \A g \in DOMAIN ShiftRows :
         /\ \E i \in DOMAIN SampleNames :
              ShiftRows[g][sample_column] = Str(SampleNames[i])
         /\ ShiftRows[g]["n_peaks"]
              = Cardinality(MatchRowsOf(ShiftRows[g][sample_column]))

\* a matched set of two rows of one sample and one row of the other
C9_Witness ==
  /\ pc = "estimated"
  /\ Len(MatchRows) = 3
  /\ Len(ShiftRows) = 2
  /\ ShiftRows[1][sample_column] = Str("A")
  /\ ShiftRows[1]["n_peaks"] = 2
  /\ ShiftRows[2][sample_column] = Str("B")
  /\ ShiftRows[2]["n_peaks"] = 1

\* the whole number of ppm in a cell
PpmInt(cell) == CHOOSE k \in PpmValues : FInt(k) = cell

\* the ppm differences of the Match rows of a sample, as whole numbers
PpmOfSample(sample) ==
  [i \in DOMAIN SelectSeq(MatchRows, LAMBDA r : r[sample_column] = sample) |->
     PpmInt(SelectSeq(MatchRows, LAMBDA r : r[sample_column] = sample)[i][ppm_column])]

RECURSIVE SumOf(_)
SumOf(ks) == IF ks = <<>> THEN 0 ELSE Head(ks) + SumOf(Tail(ks))

RECURSIVE SumOfSquares(_)
SumOfSquares(ks) ==
  IF ks = <<>> THEN 0 ELSE Head(ks) * Head(ks) + SumOfSquares(Tail(ks))

\* the r-th smallest of ks
OrderStatistic(ks, r) ==
  CHOOSE v \in Range(ks) :
    /\ Cardinality({i \in DOMAIN ks : ks[i] < v}) < r
    /\ Cardinality({i \in DOMAIN ks : ks[i] <= v}) >= r

IsMedian(ks, x) ==
  IF Len(ks) % 2 = 1
  THEN x = FInt(OrderStatistic(ks, (Len(ks) + 1) \div 2))
  ELSE x = Dec(OrderStatistic(ks, Len(ks) \div 2)
                 + OrderStatistic(ks, Len(ks) \div 2 + 1), 2)

IsMean(ks, x) == x = Dec(SumOf(ks), Len(ks))

\* x is not negative and n (n - 1) x^2 is the n (n - 1)-fold of the sample
\* variance, n sum(k^2) - sum(k)^2, up to rounding
IsSampleStd(ks, x) ==
  IF Len(ks) < 2 THEN IsNaN(x)
  ELSE /\ FLe(Zero, x)
       /\ FLe(FAbs(FSub(FMul(FMul(x, x), FInt(Len(ks) * (Len(ks) - 1))),
                        FInt(Len(ks) * SumOfSquares(ks) - SumOf(ks) * SumOf(ks)))),
              Dec(1, 1000000))

StatisticsOf(row, ks) ==
  /\ IsMedian(ks, row["shift_median"])
  /\ IsMean(ks, row["shift_mean"])
  /\ IsSampleStd(ks, row["shift_std"])
  /\ Range(ks) = {20, 22, 24} /\ Len(ks) = 3
       => /\ row["shift_median"] = FInt(22)
          /\ row["shift_mean"] = FInt(22)
          /\ row["shift_std"] = FInt(2)
          /\ row["n_peaks"] = 3

\* C10: in every shift row, shift_median, shift_mean and shift_std are the
\* median, the arithmetic mean and the sample (n - 1) standard deviation of
\* the ppm differences of the sample's Match rows; shift_std is undefined
\* for fewer than two rows; the differences 20, 22, 24 give the median 22,
\* the mean 22, the standard deviation 2 and n_peaks 3.
C10_ShiftStatistics ==
  pc = "estimated" =>
    \A g \in DOMAIN ShiftRows :
      StatisticsOf(ShiftRows[g], PpmOfSample(ShiftRows[g][sample_column]))

\* the shift row of the differences 24, 20, 22
C10_Witness ==
  /\ pc = "estimated"
  /\ Len(MatchRows) = 3
  /\ MatchRows[1][ppm_column] = FInt(24)
  /\ MatchRows[2][ppm_column] = FInt(20)
  /\ MatchRows[3][ppm_column] = FInt(22)
  /\ Len(ShiftRows) = 1
  /\ ShiftRows[1]["shift_median"] = FInt(22)
  /\ ShiftRows[1]["shift_mean"] = FInt(22)
  /\ ShiftRows[1]["shift_std"] = FInt(2)
  /\ ShiftRows[1]["n_peaks"] = 3

\* C11: a corrected row whose sample has a row in the shift table carries
\* that row's shift_median as its shift estimate and its ppm_difference
\* minus that shift_median as ppm_difference_corrected; when the table was
\* estimated from the matched set, the estimate is the median of the ppm
\* differences of the row's own sample; a row whose sample has no shift row
\* carries no estimate, never that of another sample.
C11_OwnSampleMedian ==
  pc \in {"corrected", "done"} =>
    \A n \in DOMAIN CorrectedRows :
      /\ \A g \in ShiftRowsOf(CorrectedRows[n][sample_column]) :
           /\ CorrectedRows[n]["sample_shift_estimate"]
                = ShiftRows[g]["shift_median"]
           /\ CorrectedRows[n]["ppm_difference_corrected"]
                = FSub(MatchRows[n][ppm_column], ShiftRows[g]["shift_median"])
           /\ shifts \notin ShiftTables
                => IsMedian(PpmOfSample(CorrectedRows[n][sample_column]),
                            CorrectedRows[n]["sample_shift_estimate"])
      /\ ShiftRowsOf(CorrectedRows[n][sample_column]) = {}
           => pd_isna(CorrectedRows[n]["sample_shift_estimate"])

\* the differences 20, 20, 24 of one sample, corrected by their median 20,
\* which is not their mean
C11_Witness ==
  /\ pc = "corrected"
  /\ Len(CorrectedRows) = 3
  /\ Len(ShiftRows) = 1
  /\ ShiftRows[1]["shift_median"] = FInt(20)
  /\ ShiftRows[1]["shift_mean"] # FInt(20)
  /\ \A n \in DOMAIN CorrectedRows :
       CorrectedRows[n]["sample_shift_estimate"] = FInt(20)
  /\ CorrectedRows[3]["ppm_difference_corrected"] = FInt(4)

\* out has the rows of in, in their order, every field of in with its
\* value, the columns of in first, and the fields named in added
Extends(out, in, added) ==
  /\ Len(out.rows) = Len(in.rows)
  /\ \A n \in DOMAIN in.rows :
       /\ \A c \in DOMAIN in.rows[n] : out.rows[n][c] = in.rows[n][c]
       /\ DOMAIN out.rows[n] = DOMAIN in.rows[n] \cup added
       /\ DOMAIN in.rows[n] \cap added = {}
  /\ in.rows # <<>> =>
       /\ SubSeq(out.columns, 1, Len(in.columns)) = in.columns
       /\ Range(out.columns) = Range(in.columns) \cup added
  /\ in.rows = <<>> => out = in

AdditiveSoFar ==
  /\ pc \in {"corrected", "done"} =>
       Extends(corrected_df, matched_df,
               {"sample_shift_estimate", "ppm_difference_corrected"})
  /\ pc = "done" =>
       /\ Extends(final_df, corrected_df, {"confidence_corrected"})
       /\ Extends(final_df, matched_df,
                  {"sample_shift_estimate", "ppm_difference_corrected",
                   "confidence_corrected"})

\* C12: the table apply_shift_correction returns has the rows of the
\* matched set in their order, with every field they had and two new
\* fields; the table recalculate_confidence returns has those rows with
\* one more new field; neither call changes the table it was given, and
\* apply_shift_correction does not change the shift table.
C12_Additive ==
  /\ []AdditiveSoFar
  /\ [][/\ ApplyShift => UNCHANGED <<matched_df, shifts>>
        /\ RecalculateConfidence => UNCHANGED <<matched_df, shifts, corrected_df>>]_vars

\* a corrected set of three rows whose confidence_corrected differs from
\* the confidence the rows keep
C12_Witness ==
  /\ pc = "done"
  /\ Len(final_df.rows) = 3
  /\ \A n \in DOMAIN final_df.rows :
       /\ final_df.rows[n]["confidence"] = MatchRows[n]["confidence"]
       /\ final_df.rows[n][ppm_column] = MatchRows[n][ppm_column]
  /\ \E n \in DOMAIN final_df.rows :
       final_df.rows[n]["confidence_corrected"] # final_df.rows[n]["confidence"]

\* x is a number of the interval [0, 1]
InUnitInterval(x) == FLe(Zero, x) /\ FLe(x, One)

\* max(0, 1 - |x| / threshold), the larger of the two numbers
ClampedDecay(x, threshold) ==
  IF FLt(Zero, FSub(One, FDiv(FAbs(x), threshold)))
  THEN FSub(One, FDiv(FAbs(x), threshold))
  ELSE Zero

\* C13: the confidence of every Match row is max(0, 1 - |ppm_difference| /
\* ppm_threshold) and lies in [0, 1]; it is 1 exactly when ppm_difference
\* is 0 and 0 exactly when |ppm_difference| is ppm_threshold; for a pair
\* beyond the threshold calculate_confidence gives 0.
C13_Confidence ==
  pc = "matched" =>
    /\ \A n \in DOMAIN MatchRows :
         /\ MatchRows[n]["confidence"]
              = ClampedDecay(MatchRows[n]["ppm_difference"], ppm_threshold)
         /\ InUnitInterval(MatchRows[n]["confidence"])
         /\ MatchRows[n]["confidence"] = One
              <=> IsZero(MatchRows[n]["ppm_difference"])
         /\ MatchRows[n]["confidence"] = Zero
              <=> FEq(FAbs(MatchRows[n]["ppm_difference"]), ppm_threshold)
    /\ \A i \in DOMAIN PeakRows : \A j \in DOMAIN ReferenceRows :
         FLt(ppm_threshold, FAbs(PpmOf(PeakRows[i], ReferenceRows[j])))
           => calculate_confidence(PpmOf(PeakRows[i], ReferenceRows[j]),
                                   ppm_threshold) = Zero

\* a run with a Match of confidence 1, a Match of confidence 0 and a Match
\* of a negative ppm_difference
C13_Witness ==
  /\ pc = "matched"
  /\ \E n \in DOMAIN MatchRows :
       MatchRows[n]["confidence"] = One /\ IsZero(MatchRows[n]["ppm_difference"])
  /\ \E n \in DOMAIN MatchRows :
       /\ MatchRows[n]["confidence"] = Zero
       /\ MatchRows[n]["ppm_difference"] = ppm_threshold
  /\ \E n \in DOMAIN MatchRows : FLt(MatchRows[n]["ppm_difference"], Zero)

FinalRows == final_df.rows

\* C14: in a run of the pipeline the confidence_corrected of every row is
\* max(0, 1 - |ppm_difference_corrected| / ppm_threshold) for the
\* ppm_threshold of the run, with which the matcher computed the row's
\* confidence; it lies in [0, 1], and it is 0 when the corrected difference
\* is beyond the threshold or undefined.
C14_ConfidenceCorrected ==
  pc = "done" =>
    \A n \in DOMAIN FinalRows :
      /\ FinalRows[n]["confidence_corrected"]
           = ClampedDecay(FinalRows[n]["ppm_difference_corrected"], ppm_threshold)
      /\ FinalRows[n]["confidence"]
           = ClampedDecay(FinalRows[n]["ppm_difference"], ppm_threshold)
      /\ InUnitInterval(FinalRows[n]["confidence_corrected"])
      /\ pd_isna(FinalRows[n]["ppm_difference_corrected"])
           => FinalRows[n]["confidence_corrected"] = Zero
      /\ FLt(ppm_threshold, FAbs(FinalRows[n]["ppm_difference_corrected"]))
           => FinalRows[n]["confidence_corrected"] = Zero

\* a run at threshold 125 with a row whose corrected difference is beyond
\* the threshold and a row whose confidence_corrected is 1
C14_Witness ==
  /\ pc = "done"
  /\ ppm_threshold = FInt(125)
  /\ \E n \in DOMAIN FinalRows :
       /\ FLt(ppm_threshold, FAbs(FinalRows[n]["ppm_difference_corrected"]))
       /\ FinalRows[n]["confidence_corrected"] = Zero
       /\ FLt(Zero, FinalRows[n]["confidence"])
  /\ \E n \in DOMAIN FinalRows : FinalRows[n]["confidence_corrected"] = One

\* C15: the ppm_difference of every Match row is (observed_mz - Mass) /
\* Mass * 1000000; it is positive exactly when observed_mz is greater than
\* Mass, negative exactly when it is smaller, and 0 exactly when the two
\* are equal.
C15_SignedPpm ==
  pc = "matched" =>
    \A n \in DOMAIN MatchRows :
      /\ MatchRows[n]["ppm_difference"]
           = FMul(FDiv(FSub(MatchRows[n]["observed_mz"], MatchRows[n][mass_column]),
                       MatchRows[n][mass_column]),
                  FInt(1000000))
      /\ FLt(Zero, MatchRows[n]["ppm_difference"])
           <=> FLt(MatchRows[n][mass_column], MatchRows[n]["observed_mz"])
      /\ FLt(MatchRows[n]["ppm_difference"], Zero)
           <=> FLt(MatchRows[n]["observed_mz"], MatchRows[n][mass_column])
      /\ IsZero(MatchRows[n]["ppm_difference"])
           <=> FEq(MatchRows[n]["observed_mz"], MatchRows[n][mass_column])

\* a run with a Match above its reference mass, a Match below it and a
\* Match on it
C15_Witness ==
  /\ pc = "matched"
  /\ \E n \in DOMAIN MatchRows :
       /\ FLt(Zero, MatchRows[n]["ppm_difference"])
       /\ FLt(MatchRows[n][mass_column], MatchRows[n]["observed_mz"])
  /\ \E n \in DOMAIN MatchRows :
       /\ FLt(MatchRows[n]["ppm_difference"], Zero)
       /\ FLt(MatchRows[n]["observed_mz"], MatchRows[n][mass_column])
  /\ \E n \in DOMAIN MatchRows :
       /\ IsZero(MatchRows[n]["ppm_difference"])
       /\ MatchRows[n]["observed_mz"] = MatchRows[n][mass_column]

\* C16: every unmatched row is a peak of the input with all its attributes
\* and values, and every Match row carries every attribute of its peak and
\* every attribute of its reference entry with the values of the input,
\* also when a peak attribute and a reference attribute have the same name.
C16_AttributesUnchanged ==
  pc = "matched" =>
    /\ \A n \in DOMAIN UnmatchedRows :
         \E i \in DOMAIN PeakRows : UnmatchedRows[n] = PeakRows[i]
    /\ \A n \in DOMAIN MatchRows :
         \E i \in DOMAIN PeakRows : \E j \in DOMAIN ReferenceRows :
           /\ \A c \in Range(peaks_df.columns) :
                MatchRows[n][c] = PeakRows[i][c]
           /\ \A c \in Range(reference_df.columns) :
                MatchRows[n][c] = ReferenceRows[j][c]

SecondRows == second_shifts.rows

\* the tolerance of a median that is 0 up to rounding
MedianTolerance == Dec(1, 1000000000)

\* C17: when the shifts of a corrected set are estimated once more, from
\* ppm_difference_corrected, the table has a row for every sample of the
\* first table, and every shift_median in it is 0 within the tolerance,
\* for samples of an odd and of an even number of rows.
C17_SecondMedianZero ==
  pc = "reestimated" =>
    /\ {SecondRows[g][sample_column] : g \in DOMAIN SecondRows}
         = {ShiftRows[g][sample_column] : g \in DOMAIN ShiftRows}
    /\ \A g \in DOMAIN SecondRows :
         /\ FLe(FAbs(SecondRows[g]["shift_median"]), MedianTolerance)
         /\ SecondRows[g]["n_peaks"] = ShiftRows[g]["n_peaks"]

\* a second table for a sample of two rows and a sample of one row, whose
\* first medians were not 0
C17_Witness ==
  /\ pc = "reestimated"
  /\ Len(SecondRows) = 2
  /\ SecondRows[1]["n_peaks"] = 2
  /\ SecondRows[2]["n_peaks"] = 1
  /\ \A g \in DOMAIN ShiftRows :
       FLt(MedianTolerance, FAbs(ShiftRows[g]["shift_median"]))
  /\ \A g \in DOMAIN SecondRows :
       FLe(FAbs(SecondRows[g]["shift_median"]), MedianTolerance)

\* the label of the web result in the markup of the cli report
Markup(label) ==
  IF label = "Excellent" THEN "[green]Excellent[/green]"
  ELSE IF label = "Good" THEN "[green]Good[/green]"
  ELSE IF label = "Moderate" THEN "[yellow]Moderate[/yellow]"
  ELSE "[red]High[/red]"

AbsMedian(g) == FAbs(ShiftRows[g]["shift_median"])

\* C18: the label of a shift row is "Excellent" when |shift_median| < 10,
\* "Good" when 10 <= |shift_median| < 30, "Moderate" when 30 <=
\* |shift_median| < 50 and "High" when |shift_median| >= 50, in the web
\* result and in the cli report alike; rows of the same absolute value have
\* the same label.
C18_SeverityLadder ==
  pc = "reported" =>
    /\ Len(assessments) = Len(ShiftRows)
    /\ \A g \in DOMAIN ShiftRows :
         /\ assessments[g].web = "Excellent" <=> FLt(AbsMedian(g), FInt(10))
         /\ assessments[g].web = "Good"
              <=> FLe(FInt(10), AbsMedian(g)) /\ FLt(AbsMedian(g), FInt(30))
         /\ assessments[g].web = "Moderate"
              <=> FLe(FInt(30), AbsMedian(g)) /\ FLt(AbsMedian(g), FInt(50))
         /\ assessments[g].web = "High" <=> FLe(FInt(50), AbsMedian(g))
         /\ assessments[g].cli = Markup(assessments[g].web)
    /\ \A g, h \in DOMAIN ShiftRows :
         AbsMedian(g) = AbsMedian(h) => assessments[g] = assessments[h]

\* the report of a table with the medians 10 and -50
C18_Witness ==
  /\ pc = "reported"
  /\ Len(ShiftRows) = 2
  /\ ShiftRows[1]["shift_median"] = FInt(10)
  /\ ShiftRows[2]["shift_median"] = FNeg(FInt(50))
  /\ assessments[1].web = "Good"
  /\ assessments[2].web = "High"
  /\ assessments[2].cli = "[red]High[/red]"

EmptyShiftTable == [columns |-> shift_columns, rows |-> <<>>]

\* C19: on a matched set without rows no operation of the calibrator
\* raises; estimate_sample_shift returns a shift table without rows, and
\* apply_shift_correction and recalculate_confidence return the set they
\* were given, whatever its columns and whatever the shift table.
C19_EmptyAccepted ==
  Len(MatchRows) = 0 =>
    /\ raised = NoError
    /\ pc # "raised"
    /\ pc = "estimated" => shifts = EmptyShiftTable
    /\ pc \in {"corrected", "done"} => corrected_df = matched_df
    /\ pc = "done" => final_df = matched_df

\* the three operations have run on the frame the matcher returns when
\* nothing matched
C19_Witness ==
  /\ pc = "done"
  /\ matched_df = EmptyFrame
  /\ shifts = EmptyShiftTable
  /\ corrected_df = EmptyFrame
  /\ final_df = EmptyFrame
  /\ raised = NoError

\* match_peaks_to_glycans has raised / has returned to its caller
MatcherFailed == pc = "raised" /\ raised.type \in {"ValueError", "TypeError"}

MatcherReturned ==
  \/ pc \in {"returned", "matched", "estimated", "corrected", "done",
            "reestimated"}
  \/ pc = "raised" /\ raised.type = "KeyError"

\* the peak was skipped for its missing mass, or is in one of the outputs
Processed(peak) ==
  \/ pd_isna(peak[mz_column])
  \/ \E n \in DOMAIN UnmatchedRows : UnmatchedRows[n] = peak
  \/ RowsOfPeak(peak) # {}

\* C20: when match_peaks_to_glycans raises, be it at the column checks or
\* in the middle of the loop, its caller holds neither matched nor
\* unmatched rows and nothing downstream has run on a part of them; when it
\* returns, the loop has gone over every peak, the outputs are the whole
\* lists, and every peak was skipped for its missing mass or is in one of
\* the outputs.
C20_AllOrNothing ==
  /\ MatcherFailed =>
       /\ matched_df = EmptyFrame
       /\ unmatched_df = EmptyFrame
       /\ shifts = EmptyFrame
       /\ corrected_df = EmptyFrame
       /\ final_df = EmptyFrame
  /\ MatcherReturned =>
       /\ idx = Len(PeakRows)
       /\ MatchRows = matched_rows
       /\ UnmatchedRows = unmatched_rows
       /\ \A i \in DOMAIN PeakRows : Processed(PeakRows[i])

\* the loop has raised on its second peak after the first one had added a
\* row to the list of matches
C20_Witness ==
  /\ MatcherFailed
  /\ raised.type = "TypeError"
  /\ idx = 1
  /\ Len(matched_rows) > 0
  /\ matched_df = EmptyFrame
  /\ unmatched_df = EmptyFrame

\* the lists a peak gives on its own, from the peak and the inputs alone
OutcomeOf(peak, rows) ==
  [matched |-> rows, unmatched |-> IF rows = <<>> THEN <<peak>> ELSE <<>>]

OutcomeOfPeak(peak, reference, threshold) ==
  IF pd_isna(peak[mz_column]) THEN [matched |-> <<>>, unmatched |-> <<>>]
  ELSE OutcomeOf(peak, rows_for_peak(peak, reference, threshold))

MatchedOfPeak(peak, reference, threshold) ==
  OutcomeOfPeak(peak, reference, threshold).matched

\* two outcomes, one after the other
Joined(first, second) ==
  [matched |-> first.matched \o second.matched,
   unmatched |-> first.unmatched \o second.unmatched]

RECURSIVE OutcomeOfPeaks(_, _, _)
OutcomeOfPeaks(peaks, reference, threshold) ==
  IF peaks = <<>> THEN [matched |-> <<>>, unmatched |-> <<>>]
  ELSE Joined(OutcomeOfPeaks(SubSeq(peaks, 1, Len(peaks) - 1), reference,
                             threshold),
              OutcomeOfPeak(peaks[Len(peaks)], reference, threshold))

\* what the matcher has returned
Returned == [matched |-> MatchRows, unmatched |-> UnmatchedRows]

\* the error the inputs alone decide
ErrorOfInputs ==
  IF MissingColumn(peaks_df, reference_df) # ""
  THEN ValueError(MissingColumn(peaks_df, reference_df))
  ELSE TypeError(mz_column)

\* C21: no step of the matcher changes the peaks table, the reference
\* table or the threshold, and what it returns (or raises) is decided by
\* these three alone: the matched and unmatched rows are those every peak
\* gives on its own, whatever progress the loop had reported before it.
\* (The outputs are compared when the matcher returns; no later step
\* writes them.)
C21_Pure ==
  /\ [][/\ peaks_df' = peaks_df
        /\ reference_df' = reference_df
        /\ ppm_threshold' = ppm_threshold]_vars
  /\ [](pc = "matched" =>
          Returned = OutcomeOfPeaks(PeakRows, reference_df, ppm_threshold))
  /\ [](MatcherFailed => raised = ErrorOfInputs)

\* a run over two peaks has returned rows in both outputs
C21_Witness ==
  /\ pc = "matched"
  /\ Len(PeakRows) = 2
  /\ idx = 2
  /\ Len(MatchRows) > 0
  /\ Len(UnmatchedRows) > 0
  /\ Returned = OutcomeOfPeaks(PeakRows, reference_df, ppm_threshold)

\* the lists the loop of match_peaks_to_glycans builds on a peak sequence
RECURSIVE RunOn(_, _, _)
RunOn(peaks, reference, threshold) ==
  IF peaks = <<>> THEN [matched |-> <<>>, unmatched |-> <<>>]
  ELSE LET before == RunOn(SubSeq(peaks, 1, Len(peaks) - 1), reference,
                           threshold)
       IN  match_one_peak(peaks[Len(peaks)], reference, threshold,
                          before.matched, before.unmatched)

\* the matched set with the rows of one sample only
OnlySample(df, sample) ==
  [columns |-> df.columns,
   rows |-> SelectSeq(df.rows, LAMBDA r : r[sample_column] = Str(sample))]

\* C22: wherever the peak sequence of a run is cut in two parts, its matched
\* rows are the matched rows of the first part followed by those of the
\* second part, each part matched on its own, and so are its unmatched
\* rows; the shift row of a sample is the one estimate_sample_shift gives
\* on the Match rows of that sample alone.  (The outputs are compared when
\* the matcher returns and the estimate when it is made; no later step
\* writes them.)
C22_Decomposes ==
  /\ pc = "matched" =>
       \A k \in 1 .. Len(PeakRows) - 1 :
         Returned =
           Joined(RunOn(SubSeq(PeakRows, 1, k), reference_df, ppm_threshold),
                  RunOn(SubSeq(PeakRows, k + 1, Len(PeakRows)), reference_df,
                        ppm_threshold))
  /\ pc = "estimated" =>
       \A i \in DOMAIN SampleNames :
         SelectSeq(ShiftRows,
                   LAMBDA r : r[sample_column] = Str(SampleNames[i]))
           = estimate_sample_shift(OnlySample(matched_df, SampleNames[i]),
                                   ppm_column).rows

\* two peaks of two samples have matched and each sample has its estimate
C22_Witness ==
  /\ pc = "estimated"
  /\ Len(PeakRows) = 2
  /\ Len(ShiftRows) = 2
  /\ Len(MatchRows) > 2
  /\ MatchRows =
       RunOn(<<PeakRows[1]>>, reference_df, ppm_threshold).matched
       \o RunOn(<<PeakRows[2]>>, reference_df, ppm_threshold).matched

\* the text of a cell of the report without its colour markup
Plain(cell) ==
  IF cell \in {"[green]Excellent[/green]"} THEN "Excellent"
  ELSE IF cell \in {"[green]Good[/green]"} THEN "Good"
  ELSE IF cell \in {"[yellow]Moderate[/yellow]"} THEN "Moderate"
  ELSE IF cell \in {"[red]High[/red]"} THEN "High"
  ELSE "?"

\* C23: for every shift row the label _shift_assessment gives the absolute
\* median is the label print_shift_report prints for the row, the
\* boundaries 10, 30 and 50 included.
C23_LaddersAgree ==
  pc = "reported" =>
    \A g \in DOMAIN ShiftRows :
      /\ Plain(assessments[g].cli) = assessments[g].web
      /\ Plain(report_assessment(ShiftRows[g]["shift_median"]))
           = shift_assessment(AbsMedian(g))
      /\ Plain(report_assessment(AbsMedian(g)))
           = shift_assessment(AbsMedian(g))

\* the report of a table with the medians 30 and 29.99
C23_Witness ==
  /\ pc = "reported"
  /\ Len(ShiftRows) = 2
  /\ ShiftRows[1]["shift_median"] = FInt(30)
  /\ ShiftRows[2]["shift_median"] = Dec(2999, 100)
  /\ assessments[1] = [cli |-> "[yellow]Moderate[/yellow]", web |-> "Moderate"]
  /\ assessments[2] = [cli |-> "[green]Good[/green]", web |-> "Good"]

\* C24: the store never holds more than MAX_SESSIONS sessions that are
\* pending or running, however the upload requests interleave.
C24_SessionLimit == active_sessions(sessions) <= MAX_SESSIONS

\* everything run_pipeline has emitted, in order (nobody reads the queue)
Emitted == queues[TheSession].items \o queues[TheSession].scheduled

Terminals == {i \in DOMAIN Emitted : is_terminal(Emitted[i])}

Ended == pipelines[TheSession].phase = "ended"

\* the ProgressMessage and the StepCompleteMessage of the steps 1 .. k
Pairs(k) ==
  [j \in 1 .. 2 * k |-> IF j % 2 = 1 THEN ProgressMessage((j + 1) \div 2)
                        ELSE StepCompleteMessage(j \div 2)]

\* one terminal message, the last one, when the thread has ended and none
\* before
OneTerminal ==
  /\ Cardinality(Terminals) = (IF Ended THEN 1 ELSE 0)
  /\ \A i \in Terminals : i = Len(Emitted)

\* for each started step its ProgressMessage precedes its
\* StepCompleteMessage, and the step numbers never decrease
StepsInOrder ==
  /\ \A j \in DOMAIN Emitted :
       Emitted[j].type = "step_complete" =>
         \E i \in 1 .. j - 1 : Emitted[i] = ProgressMessage(Emitted[j].step)
  /\ \A i, j \in DOMAIN Emitted \ Terminals :
       i <= j => Emitted[i].step <= Emitted[j].step

C25_Ordered ==
  /\ OneTerminal
  /\ StepsInOrder
  /\ ~Ended => ~pipelines[TheSession].raised
  /\ Ended /\ ~pipelines[TheSession].raised =>
       /\ Len(Emitted) = 2 * TOTAL_STEPS + 1
       /\ Emitted[Len(Emitted)].type = "complete"
       /\ SubSeq(Emitted, 1, 2 * TOTAL_STEPS) = Pairs(TOTAL_STEPS)
  /\ Ended /\ pipelines[TheSession].raised =>
       LET k == pipelines[TheSession].step
       IN  \/ Emitted = Pairs(k - 1)
                          \o <<ProgressMessage(k), ErrorMessage(k)>>
           \/ /\ k = TOTAL_STEPS
              /\ Emitted = Pairs(k) \o <<ErrorMessage(k)>>

\* C25: run_pipeline emits one terminal message, as its last message and
\* not before it ends, and every execution ends.  When the seven steps and
\* the assembly of the result (_build_result) succeed it is a
\* CompleteMessage after the seven pairs of ProgressMessage and
\* StepCompleteMessage; otherwise it is an ErrorMessage that carries the
\* number of the last step started: the step in progress when the
\* exception occurred, after the pairs of the steps before it, or 7 after
\* the StepCompleteMessage of step 7 when the assembly of the result
\* failed.  The StepCompleteMessage of a step comes after its
\* ProgressMessage, and the step numbers before the terminal message never
\* decrease.
C25_OneTerminal == []C25_Ordered /\ <>Ended

\* C25 as stated: the terminal message is a CompleteMessage when the seven
\* steps have succeeded (each has emitted its StepCompleteMessage), and
\* otherwise an ErrorMessage with the number of a step that was in
\* progress: started and not completed
C25_AsStated ==
  /\ OneTerminal
  /\ StepsInOrder
  /\ Ended =>
       LET last == Emitted[Len(Emitted)]
       IN  IF \A k \in 1 .. TOTAL_STEPS :
                \E i \in DOMAIN Emitted : Emitted[i] = StepCompleteMessage(k)
           THEN last.type = "complete"
           ELSE /\ last.type = "error"
                /\ \E i \in DOMAIN Emitted :
                     Emitted[i] = ProgressMessage(last.step)
                /\ \A i \in DOMAIN Emitted :
                     Emitted[i] # StepCompleteMessage(last.step)

\* the seven steps and the assembly have succeeded: fifteen messages, the
\* last one the CompleteMessage, after both output files were written
C25_Witness ==
  /\ Ended
  /\ ~pipelines[TheSession].raised
  /\ Len(Emitted) = 2 * TOTAL_STEPS + 1
  /\ Emitted[Len(Emitted)].type = "complete"
  /\ Emitted[Len(Emitted) - 1] = StepCompleteMessage(TOTAL_STEPS)
  /\ pipelines[TheSession].written = Len(downloads_of(TRUE))

\* the latest answer of get_session says that the session is over
PollSaysOver ==
  /\ requests # <<>>
  /\ requests[1].session_id = TheSession
  /\ requests[1].status \in {"done", "error"}

\* C26: once run_pipeline has emitted its terminal message, a client that
\* keeps polling get_session is eventually told done or error, whether or
\* not a WebSocket client is there to take the message.
C26_PollFallback == (pipelines[TheSession].phase = "ended") ~> PollSaysOver

\* the client of handler c has been sent a terminal message of its session
GotTerminal(c) ==
  /\ sockets[c].last # None
  /\ sockets[c].last[1].type \in {"complete", "error"}

\* C27: every client that is connected to the session and stays is
\* eventually sent the terminal message of the session, and its handler
\* returns.
C27_EveryClientTold ==
  \A c \in 1 .. MaxClients :
    (sockets[c].pc = "waiting" /\ sockets[c].sid = TheSession)
      ~> (\/ sockets[c].pc = "closed" /\ GotTerminal(c)
          \/ ~sockets[c].alive)

StatusConsistent ==
  \A sid \in DOMAIN sessions :
    /\ sessions[sid].status \in {"running", "done", "error"}
    /\ sessions[sid].result # None <=> sessions[sid].status = "done"
    /\ sessions[sid].error # None <=> sessions[sid].status = "error"

StatusStep ==
  /\ DOMAIN sessions' \subseteq DOMAIN sessions
  /\ \A sid \in DOMAIN sessions \cap DOMAIN sessions' :
       /\ sessions'[sid].status # sessions[sid].status =>
            /\ sessions[sid].status = "running"
            /\ sessions'[sid].status \in {"done", "error"}
       /\ sessions[sid].status # "running" => sessions'[sid] = sessions[sid]

\* C28: a session of the store is running, done or error; its result is
\* set exactly when it is done and its error exactly when it is error; a
\* step changes its status only from running to done or to error, and
\* changes nothing of a session that is done or error.  (The cleanup loop
\* takes a session out of the store; it does not come back.)
C28_StatusMoves == []StatusConsistent /\ [][StatusStep]_vars

\* one handler has recorded the CompleteMessage while the handler of a
\* second client waits at the queue
C28_Witness ==
  /\ TheSession \in DOMAIN sessions
  /\ sessions[TheSession].status = "done"
  /\ sessions[TheSession].result # None
  /\ sessions[TheSession].result[1].type = "complete"
  /\ sessions[TheSession].error = None
  /\ \E c \in DOMAIN sockets : sockets[c].pc = "closed" /\ GotTerminal(c)
  /\ \E c \in DOMAIN sockets :
       sockets[c].pc = "waiting" /\ sockets[c].sid = TheSession

\* the answer to a download request that has returned
Answer(r) == requests[r].response[1]

\* C29: a download is answered with the file exactly when its name is one
\* of matched_glycans.tsv and unmatched_peaks.tsv and the session directory
\* holds that file, and the file served is that one; any other name is
\* answered 400 without a look at the file system, and a whitelisted name
\* without its file 404.
C29_DownloadWhitelist ==
  \A r \in DOMAIN requests :
    requests[r].pc = "returned" =>
      /\ Answer(r).code = 200
           <=> /\ requests[r].filename
                    \in {"matched_glycans.tsv", "unmatched_peaks.tsv"}
               /\ <<requests[r].sid, requests[r].filename>> \in files
      /\ Answer(r).code = 200 =>
           Answer(r).served = <<<<requests[r].sid, requests[r].filename>>>>
      /\ requests[r].filename
           \notin {"matched_glycans.tsv", "unmatched_peaks.tsv"}
           => Answer(r).code = 400 /\ ~Answer(r).consulted
      /\ requests[r].filename
           \in {"matched_glycans.tsv", "unmatched_peaks.tsv"}
         /\ <<requests[r].sid, requests[r].filename>> \notin files
           => Answer(r).code = 404 /\ Answer(r).consulted
      /\ Answer(r).code \in {200, 400, 404}
      /\ Answer(r).code # 200 => Answer(r).served = <<>>

\* the directory of a session holds its uploads and matched_glycans.tsv:
\* matched_glycans.tsv was served, unmatched_peaks.tsv was looked for and
\* answered 404, and peaks.xlsx was refused with 400 without a look
C29_Witness ==
  /\ <<TheSession, "matched_glycans.tsv">> \in files
  /\ <<TheSession, "unmatched_peaks.tsv">> \notin files
  /\ <<TheSession, "peaks.xlsx">> \in files
  /\ \A r \in DOMAIN requests :
       requests[r].pc = "returned" /\ requests[r].sid = TheSession
  /\ \E r \in DOMAIN requests :
       /\ requests[r].filename = "matched_glycans.tsv"
       /\ Answer(r).code = 200
       /\ Answer(r).served = <<<<TheSession, "matched_glycans.tsv">>>>
  /\ \E r \in DOMAIN requests :
       /\ requests[r].filename = "unmatched_peaks.tsv"
       /\ Answer(r).code = 404
       /\ Answer(r).consulted
  /\ \E r \in DOMAIN requests :
       /\ requests[r].filename = "peaks.xlsx"
       /\ Answer(r).code = 400
       /\ ~Answer(r).consulted

\* the peaks of the input that have a mass / that gave a Match row
PeaksWithMass == {i \in DOMAIN PeakRows : ~pd_isna(PeakRows[i][mz_column])}

PeaksMatched ==
  {i \in DOMAIN PeakRows :
     MatchedOfPeak(PeakRows[i], reference_df, ppm_threshold) # <<>>}

\* C30: matched_peaks is the number of input peaks with a Match row,
\* matched_peaks + unmatched_peaks the number of peaks with a mass, and
\* match_rate lies in [0, 1], whether or not peaks share their m/z value.
C30_MatchedPeaks ==
  stats # NoStats =>
    /\ stats.matched_peaks = Cardinality(PeaksMatched)
    /\ stats.matched_peaks + stats.unmatched_peaks = Cardinality(PeaksWithMass)
    /\ FLe(Zero, stats.match_rate)
    /\ FLe(stats.match_rate, One)

====
